---- MODULE Spec2Model ----
\* Token lifecycle of the MES ION API gateway: the cache drivers, the
\* IONAuthManager (getAccessToken / requestNewToken / clearToken), the
\* IONApiClient.request retry-on-401 path and the background TokenRefresher.
\*
\* Time is Date.now() in milliseconds.  Every await on a network call is a
\* suspension point and is a step of its own; a cache operation is one step
\* taken at the instant the operation reaches the store (for the in-process
\* driver that is the instant of the call).
EXTENDS Integers, Sequences, FiniteSets, TLC

----------------------------------------------------------------------------
\* Bounds of the model

NumRequests == 2
NumCallers == 2
NumTicks == 2
MaxChecks == 2
MaxOps == 3
MaxIssued == 3
MaxDriverOps == 3
MaxProxyRequests == 2
MaxInstances == 2
NumHealthChecks == 2
MaxAuthRequests == 2
MaxCacheCalls == 4

\* Instants (ms) the clock may take under the token manager's callers; they
\* hit the 30 s acquisition timeout and both sides of the local and of the
\* upstream expiry of a token with expires_in = 3600 acquired at 0.
AuthTimePoints == {0, 30000, 3539000, 3540000, 3541000, 3600000}

\* Instants under the refresher's timer: half periods of checkInterval
TimerTimePoints == {0, 30000, 60000, 120000}

\* Instants under the refresher: remaining lifetimes of 600, 300 and 240
\* seconds for a token with expires_in = 3600 acquired at 0.
RefresherTimePoints == {0, 2940000, 3240000, 3300000}

\* Lifetimes (s) the token endpoint may report
ExpiresInValues == {30, 60, 3600}

\* Ways the token request may fail: an OAuth error payload on a 200, an HTTP
\* error (with a Retry-After header on a 429), or no response at all with
\* the AxiosError code of a refused connection, a timeout or another fault
TokenFailure(via, status, oauth, code, retryAfter) ==
    [via |-> via, status |-> status, oauth |-> oauth, code |-> code, retryAfter |-> retryAfter]
TokenFailures ==
    {TokenFailure("body", 200, o, "none", 0) : o \in {"invalid_client", "invalid_scope"}}
    \cup {TokenFailure("http", st, "invalid_client", "ERR_BAD_REQUEST", 0) : st \in {400, 401}}
    \cup {TokenFailure("http", 429, "none", "ERR_BAD_REQUEST", 30),
          TokenFailure("http", 500, "none", "ERR_BAD_RESPONSE", 0)}
    \cup {TokenFailure("transport", 0, "none", c, 0) :
             c \in {"ECONNREFUSED", "ECONNABORTED", "ERR_NETWORK"}}

TimeoutFailure == TokenFailure("transport", 0, "none", "ECONNABORTED", 0)
UnauthorizedFailure == TokenFailure("http", 401, "invalid_client", "ERR_BAD_REQUEST", 0)

\* Instants under the health checks: two successive milliseconds, and one
\* within the 10 s the test entry lives
HealthTimePoints == {0, 1, 5000}

\* Instants under the cache drivers: before and after the expiry of an entry
\* set with a TTL of 10 s at 0 or at 5000
DriverTimePoints == {0, 5000, 20000}

\* TTL arguments of CacheDriver.set: left out, 0, negative and positive
Ttl(given, seconds) == [given |-> given, seconds |-> seconds]
TtlValues == {Ttl(FALSE, 0), Ttl(TRUE, 0), Ttl(TRUE, -10), Ttl(TRUE, 10)}

\* A JavaScript value: what it is, and for a response body the request whose
\* upstream response it is (0 for any other value)
JsValue(val, of) == [val |-> val, of |-> of]
JsNull == JsValue("null", 0)
JsUndefined == JsValue("undefined", 0)
JsBoolean(b) == JsValue(IF b THEN "true" ELSE "false", 0)

\* Values stored by the driver-level operations: a string and null
DriverValues == {JsValue("v", 0), JsNull}

\* Statuses the upstream API may answer; 0 stands for a transport failure
\* (no response)
UpstreamStatuses == {200, 401, 404, 0}

----------------------------------------------------------------------------
\* Program constants

SafetyMarginSeconds == 60
TokenTimeoutMs == 30000
DefaultRefreshBeforeExpiry == 300
DefaultCheckInterval == 60000
DefaultTtl == 300

----------------------------------------------------------------------------
\* Tasks: concurrent IONApiClient.request calls, direct callers of the
\* IONAuthManager, and the invocations of TokenRefresher.checkAndRefreshToken

Requests == 1 .. NumRequests
Callers == {10 + i : i \in 1 .. NumCallers}
FirstCaller == 11
Ticks == {20 + i : i \in 1 .. NumTicks}
Tasks == Requests \cup Callers \cup Ticks

\* Concurrent GET /health requests, each with its checkCache call
HealthChecks == 1 .. NumHealthChecks

\* A token: its identity, the upstream's issue instant and lifetime (s), and
\* the instant the token response was processed (requestNewToken line 66)
NoToken == [id |-> 0, issuedAt |-> 0, receivedAt |-> 0, expiresIn |-> 0]

\* CacheEntry<{token, expiresAt}> under 'ion:oauth:token'.  expiresAt is the
\* field of the stored value, entryExpiresAt the driver's own expiry
\* (hasExpiry = FALSE models expiresAt: null / a key without TTL).  seenBy is
\* history: the requests that were answered 401 while this entry was cached.
NoEntry == [present |-> FALSE, token |-> NoToken, expiresAt |-> 0,
            hasExpiry |-> FALSE, entryExpiresAt |-> 0, seenBy |-> {}]

VARIABLES
    backend,     \* config.cache.driver: "memory" or "redis"
    now,         \* Date.now()
    store,       \* the cache entry under 'ion:oauth:token'
    issued,      \* number of tokens the endpoint has issued
    tokenCalls,  \* number of POSTs to the token endpoint
    lastWrite,   \* id of the token of the latest successful cache.set
    pc,          \* position of every task
    tok,         \* accessToken of a request (the bearer of its upstream attempt)
    thrown,      \* the error a request has rejected with
    sentAt,      \* instant a task's token POST was sent
    last,        \* what the latest authManager call did, and for which task
    ops,         \* number of calls the direct callers have made
    retryAuth,   \* options.headers['X-Retry-Auth'] of a request
    hdr0,        \* whether the request was made with X-Retry-Auth set
    trace,       \* per request and per refresher check: what it has done so far
    isRunning,   \* TokenRefresher.isRunning
    intervalId,  \* TokenRefresher.intervalId: TRUE while the interval timer is armed
    checks,      \* number of checkAndRefreshToken invocations so far
    proactiveFailed, \* recordTokenRefresh('proactive', false) count
    timers,      \* number of interval timers armed in the event loop
    dueAt,       \* instant the armed interval timer is due next
    startedAt,   \* instant of the latest effective start()
    startChecks, \* value of checks when the latest effective start() was called
    mem,         \* MemoryCacheDriver.cache: the Map, keys other than the token's
    red,         \* the keyspace of the Redis server under the driver's prefix
    rclient,     \* RedisCacheDriver.client: "null", "ready" or "broken"
    dres,        \* the latest driver operation and what each backend returned
    proxy,       \* the latest request to the proxy route and its response
    tokenRefresher, \* the module's singleton: 0 for null, or the number of an instance
    instances,   \* the TokenRefresher objects constructed by initializeTokenRefresher
    sres,        \* the latest call of a singleton function and what it returned
    res,         \* the HTTP response the error handler sent for a failed proxied request
    tokenRequest, \* the deployment's credentials, its IONAuthManager and the body of its token request
    manual,      \* the latest refreshNow(): its checkAndRefreshToken invocation and how it settled
    health,      \* every HealthCheckService.checkCache call: how far it is and what it returned
    authReq,     \* the latest request through authMiddleware and requirePermission
    cache        \* the CacheManager: its driver field and what its latest call did

drvVars == <<mem, red, rclient, dres>>
singletonVars == <<tokenRefresher, instances, sres>>
appVars == <<singletonVars, res, tokenRequest, manual, health, authReq, cache>>
\* Everything outside the token manager but the singleton, and but the
\* error response
nonSingleton == <<backend, drvVars, proxy, res, tokenRequest, manual, health, authReq, cache>>
nonRes == <<backend, drvVars, proxy, singletonVars, tokenRequest, manual, health, authReq, cache>>
nonTokenRequest == <<backend, drvVars, proxy, singletonVars, res, manual, health, authReq, cache>>
nonManual == <<backend, drvVars, proxy, singletonVars, res, tokenRequest, health, authReq, cache>>
nonHealth == <<backend, proxy, singletonVars, res, tokenRequest, manual, authReq, cache>>
nonAuthReq == <<backend, proxy, singletonVars, res, tokenRequest, manual, health, cache>>
nonCache == <<backend, proxy, singletonVars, res, tokenRequest, manual, health, authReq>>
envVars == <<backend, drvVars, proxy, appVars>>
tmVars == <<envVars, now, store, issued, tokenCalls, lastWrite>>
taskVars == <<pc, tok, thrown, sentAt, last>>
reqVars == <<retryAuth, hdr0>>
loopVars == <<timers, dueAt, startedAt, startChecks>>
timerVars == <<isRunning, intervalId, checks, loopVars>>
refVars == <<isRunning, intervalId, checks, proactiveFailed, loopVars>>
vars == <<backend, now, store, issued, tokenCalls, lastWrite,
          pc, tok, thrown, sentAt, last, ops, retryAuth, hdr0, trace,
          isRunning, intervalId, checks, proactiveFailed,
          timers, dueAt, startedAt, startChecks, drvVars, proxy, appVars>>
managerVars == <<store, issued, tokenCalls, lastWrite, taskVars, ops, reqVars, trace, refVars>>

\* No failure of the token request
NoFailure == [via |-> "none", status |-> 0, oauth |-> "none", code |-> "none", retryAfter |-> 0]

\* An error object: its class, its code, its statusCode, and for an
\* IONAuthenticationError retryable and retryAfter (0 stands for undefined);
\* details tells what the error carries along: the OAuth error fields,
\* the response body, or nothing
Thrown(cls, code, status, retryable, retryAfter, details) ==
    [cls |-> cls, code |-> code, status |-> status, retryable |-> retryable,
     retryAfter |-> retryAfter, details |-> details]
NoError == Thrown("none", "none", 0, "undefined", 0, "none")

\* errors.ts: CacheError(message, details) is an AppError(500, 'CACHE_ERROR')
CacheErrorThrown == Thrown("CacheError", "CACHE_ERROR", 500, "undefined", 0, "none")

\* errors.ts: IONAPIError(message, statusCode = 500, details)
IONAPIError(status, details) ==
    Thrown("IONAPIError", "ION_API_ERROR", status, "undefined", 0, details)

\* The latest decision of the token manager or of the refresher: the task,
\* what happened, the token it returned, saw or wrote, the remaining lifetime
\* (ms) of that token's cache entry, the TTL (s) handed to the cache, and for
\* a rejection the error thrown and the failure of the token request behind it
Last(task, kind, token, rem, ttl) ==
    [task |-> task, kind |-> kind, token |-> token, rem |-> rem, ttl |-> ttl,
     cause |-> NoFailure,
     err |-> IF kind \in {"cacheError", "setError", "clearError", "tickCacheError"}
             THEN CacheErrorThrown ELSE NoError]
NoLast == Last(0, "none", NoToken, 0, 0)

----------------------------------------------------------------------------
\* Cache drivers

\* A cache operation against Redis may fail (CacheError); the in-process
\* driver never does.
CacheOutcomes == IF backend = "redis" THEN {TRUE, FALSE} ELSE {TRUE}

\* MemoryCacheDriver.get line 21: entry.expiresAt && entry.expiresAt < now.
\* Redis removes a key once its TTL has elapsed.
EntryExpired(e, t) ==
    /\ e.present
    /\ e.hasExpiry
    /\ IF backend = "memory" THEN e.entryExpiresAt < t ELSE e.entryExpiresAt <= t

\* What cache.get returns: the entry, or NoEntry for null
CacheGet(e, t) == IF e.present /\ ~EntryExpired(e, t) THEN e ELSE NoEntry

\* The store after a get: MemoryCacheDriver.get deletes an expired entry,
\* Redis has dropped it already.
StoreAfterGet(e, t) == IF EntryExpired(e, t) THEN NoEntry ELSE e

\* CacheManager.set: options?.ttlSeconds ?? this.defaultTtl
\* A set that hands on no TTL when the caller gave none
EffectiveTtlNoDefault(hasOption, ttlSeconds) == IF hasOption THEN ttlSeconds ELSE 0

EffectiveTtl(hasOption, ttlSeconds) == IF hasOption THEN ttlSeconds ELSE DefaultTtl

\* Redis SETEX rejects a TTL that is not positive; a TTL of 0 is falsy and
\* takes the plain SET branch.
SetFails(ttl) == backend = "redis" /\ ttl < 0

\* driver.set(key, value, ttl): ttl ? now + ttl * 1000 : null
DriverSet(token, expiresAt, ttl, t) ==
    [present |-> TRUE, token |-> token, expiresAt |-> expiresAt,
     hasExpiry |-> (ttl # 0), entryExpiresAt |-> IF ttl # 0 THEN t + ttl * 1000 ELSE 0,
     seenBy |-> {}]

\* The entry, noted as the one cached when request r was answered 401
SeenBy(e, r) == IF e.present THEN [e EXCEPT !.seenBy = @ \cup {r}] ELSE e

----------------------------------------------------------------------------
\* Classification of authentication failures (utils/auth-errors.ts)

InvalidCredentials ==
    Thrown("IONAuthenticationError", "ION_AUTH_INVALID_CREDENTIALS", 401, "false", 0, "oauth")
NetworkError ==
    Thrown("IONAuthenticationError", "ION_AUTH_NETWORK_ERROR", 503, "true", 0, "none")
RateLimited(retryAfter) ==
    Thrown("IONAuthenticationError", "ION_AUTH_RATE_LIMITED", 429, "true", retryAfter, "body")
ServiceUnavailable ==
    Thrown("IONAuthenticationError", "ION_AUTH_SERVICE_UNAVAILABLE", 503, "true", 0, "body")
\* unknownError(message, statusCode = 500, details): an undefined status
\* takes the default
UnknownError(status, details) ==
    Thrown("IONAuthenticationError", "ION_AUTH_UNKNOWN_ERROR",
           IF status = 0 THEN 500 ELSE status, "true", 0, details)

\* An object handed to parseOAuthError: its own error and status properties
\* ("undefined" / 0 when it has none) and its response property
NoResponse == [present |-> FALSE, status |-> 0, retryAfter |-> 0]
ErrorObject(error, status, response) ==
    [error |-> error, status |-> status, response |-> response]

\* parseOAuthError lines 141-179: error.error first, then
\* error.response?.status || error.status, and for 429 the retry-after
\* header of error.response
ParseOAuthError(obj) ==
    IF obj.error \in {"invalid_client", "invalid_grant"}
    THEN InvalidCredentials
    ELSE LET status == IF obj.response.present /\ obj.response.status # 0
                       THEN obj.response.status ELSE obj.status
         IN  CASE status = 401 -> InvalidCredentials
               [] status = 429 ->
                    RateLimited(IF obj.response.present THEN obj.response.retryAfter ELSE 0)
               [] status = 503 -> ServiceUnavailable
               [] OTHER -> IF status >= 500 THEN ServiceUnavailable
                           ELSE UnknownError(status, "body")

----------------------------------------------------------------------------
\* IONAuthManager

\* A TTL without the safety margin
TokenTtlNoMargin(expiresIn) == expiresIn

\* requestNewToken line 75: ttlSeconds: tokenData.expires_in - 60
TokenTtl(expiresIn) == expiresIn - SafetyMarginSeconds

\* A stored expiry without the safety margin
TokenExpiresAtNoMargin(expiresIn, t) == t + expiresIn * 1000

\* requestNewToken line 66
TokenExpiresAt(expiresIn, t) == t + (expiresIn - SafetyMarginSeconds) * 1000

\* An expiry test that still accepts a token with no lifetime left
CacheHitInclusive(e, t) == e.present /\ e.expiresAt >= t

\* getAccessToken line 24: cachedToken && cachedToken.expiresAt > Date.now()
CacheHit(e, t) == e.present /\ e.expiresAt > t

\* A retry that is never refused
RetryAllowedAlways(r) == TRUE

\* A retry flag kept once for all requests instead of per request
RetryAllowedShared(r) == \A q \in Requests : ~retryAuth[q]

\* client.ts line 142: !options.headers?.['X-Retry-Auth']
RetryAllowed(r) == ~retryAuth[r]

\* axios.isAxiosError
IsAxiosError(e) == e.cls = "AxiosError"

\* What axiosInstance.request rejects with: an AxiosError with the response
\* (status and body) of the upstream, or without one (status 0)
UpstreamError(st) ==
    Thrown("AxiosError", IF st = 0 THEN "ERR_NETWORK" ELSE "ERR_BAD_RESPONSE", st,
           "undefined", 0, IF st = 0 THEN "none" ELSE "body")

\* An upstream error wrapped without its status and body
WrapUpstreamErrorBare(e) == IONAPIError(500, "none")

\* client.ts lines 157-165: IONAPIError(message, error.response?.status || 500,
\* {url, method, data: error.response?.data})
WrapUpstreamError(e) == IONAPIError(IF e.status = 0 THEN 500 ELSE e.status, e.details)

\* A catch block that retries on the status of whatever error it caught
RequestCatchAnyError(r, e) ==
    IF e.status = 401 /\ RetryAllowed(r)
    THEN [pc |-> "clearing", thrown |-> NoError]
    ELSE [pc |-> "done", thrown |-> IF IsAxiosError(e) THEN WrapUpstreamError(e) ELSE e]

\* The catch block of request(), client.ts lines 135-169, for the error e
\* thrown in its try block (by getAccessToken, rethrown at lines 86-88, or by
\* the upstream call): where the request continues and what it rejects with
RequestCatch(r, e) ==
    IF IsAxiosError(e)
    THEN IF e.status = 401 /\ RetryAllowed(r)
         THEN [pc |-> "clearing", thrown |-> NoError]
         ELSE [pc |-> "done", thrown |-> WrapUpstreamError(e)]
    ELSE [pc |-> "done", thrown |-> e]

\* Where a task continues once getAccessToken has resolved / rejected with e
AfterToken(t) == IF t \in Requests THEN "upstream" ELSE "idle"
AfterTokenError(t, e) == IF t \in Requests THEN RequestCatch(t, e).pc ELSE "idle"

\* What a request rejects with when its getAccessToken has rejected with e
Rejects(t, e) ==
    IF t \in Requests THEN [thrown EXCEPT ![t] = RequestCatch(t, e).thrown] ELSE thrown

\* What getAccessToken resolving / rejecting adds to the task's trace: a
\* request sends its upstream attempt in the same turn (client.ts line 123),
\* a refresher check ends (token-refresher.ts lines 112-128)
TraceGot(t, base) ==
    IF t \in Requests THEN [base EXCEPT ![t] = Append(@, "send")]
    ELSE IF t \in Ticks THEN [base EXCEPT ![t] = Append(@, "ok")]
    ELSE base
TraceAuthError(t, base) ==
    IF t \in Requests THEN [base EXCEPT ![t] = Append(@, "authError")]
    ELSE IF t \in Ticks THEN [base EXCEPT ![t] = Append(@, "fail")]
    ELSE base

\* token-refresher.ts line 124, reached when the rejection is a check's
RecordAuthError(t) == IF t \in Ticks THEN proactiveFailed + 1 ELSE proactiveFailed

\* A request that keeps the bearer it already has
BearerStale(t, token) ==
    IF t \in Requests /\ tok[t] # NoToken THEN tok ELSE [tok EXCEPT ![t] = token]

\* client.ts line 94: the token getAccessToken resolved with becomes the
\* request's Authorization header
Bearer(t, token) == IF t \in Requests THEN [tok EXCEPT ![t] = token] ELSE tok

\* getAccessToken up to its first network await, for task t whose trace so
\* far is base[t]
GetAccessToken(t, base) ==
    \E ok \in CacheOutcomes :
        IF ~ok
        THEN \* cache.get rejects: getAccessToken rejects
             /\ pc' = [pc EXCEPT ![t] = AfterTokenError(t, CacheErrorThrown)]
             /\ thrown' = Rejects(t, CacheErrorThrown)
             /\ last' = Last(t, "cacheError", NoToken, 0, 0)
             /\ trace' = TraceAuthError(t, base)
             /\ proactiveFailed' = RecordAuthError(t)
             /\ UNCHANGED <<store, tok, sentAt, tokenCalls>>
        ELSE LET e == CacheGet(store, now) IN
             /\ store' = StoreAfterGet(store, now)
             /\ UNCHANGED <<proactiveFailed, thrown>>
             /\ IF CacheHit(e, now)
                THEN /\ pc' = [pc EXCEPT ![t] = AfterToken(t)]
                     /\ tok' = Bearer(t, e.token)
                     /\ last' = Last(t, "hit", e.token, e.expiresAt - now, 0)
                     /\ trace' = TraceGot(t, base)
                     /\ UNCHANGED <<sentAt, tokenCalls>>
                ELSE /\ pc' = [pc EXCEPT ![t] = "acquiring"]
                     /\ sentAt' = [sentAt EXCEPT ![t] = now]
                     /\ tokenCalls' = tokenCalls + 1
                     /\ last' = IF e.present
                                THEN Last(t, "expired", e.token, e.expiresAt - now, 0)
                                ELSE Last(t, "absent", NoToken, 0, 0)
                     /\ trace' = base
                     /\ UNCHANGED tok

\* The lifetimes the token endpoint reports to task t: proxied requests, for
\* which the clock stands still, are given hour-long tokens only
ExpiresInFor(t) == IF t \in Requests THEN {3600} ELSE ExpiresInValues

\* The token endpoint answers with a token payload within the timeout; the
\* token was issued somewhere between the POST and the response.
AcquireOKWith(t, lifetimes) ==
    /\ pc[t] = "acquiring"
    /\ now - sentAt[t] <= TokenTimeoutMs
    /\ issued < MaxIssued
    /\ \E L \in lifetimes, at \in {sentAt[t], now}, ok \in CacheOutcomes :
        LET token == [id |-> issued + 1, issuedAt |-> at, receivedAt |-> now, expiresIn |-> L]
            ttl == EffectiveTtl(TRUE, TokenTtl(L))
            expiresAt == TokenExpiresAt(L, now)
        IN  /\ issued' = issued + 1
            /\ IF ok /\ ~SetFails(ttl)
               THEN /\ store' = DriverSet(token, expiresAt, ttl, now)
                    /\ lastWrite' = token.id
                    /\ pc' = [pc EXCEPT ![t] = AfterToken(t)]
                    /\ tok' = Bearer(t, token)
                    /\ last' = Last(t, "acquired", token, expiresAt - now, ttl)
                    /\ trace' = TraceGot(t, trace)
                    /\ UNCHANGED <<proactiveFailed, thrown>>
               ELSE \* cache.set rejects with a CacheError, rethrown at line 100
                    /\ pc' = [pc EXCEPT ![t] = AfterTokenError(t, CacheErrorThrown)]
                    /\ thrown' = Rejects(t, CacheErrorThrown)
                    /\ last' = Last(t, "setError", token, expiresAt - now, ttl)
                    /\ trace' = TraceAuthError(t, trace)
                    /\ proactiveFailed' = RecordAuthError(t)
                    /\ UNCHANGED <<store, lastWrite, tok>>
    /\ sentAt' = [sentAt EXCEPT ![t] = 0]
    /\ UNCHANGED <<envVars, now, tokenCalls, ops, reqVars, timerVars>>

AcquireOK(t) == AcquireOKWith(t, ExpiresInFor(t))

\* What axios.post rejects with for a failure that is not an error payload:
\* an AxiosError with its code and, for an HTTP error, the response
AxiosFailure(f) ==
    [code |-> f.code,
     response |-> IF f.via = "http"
                  THEN [present |-> TRUE, status |-> f.status, retryAfter |-> f.retryAfter]
                  ELSE NoResponse]

\* requestNewToken of the client_credentials manager (auth.ts): an error
\* payload throws IONAPIError(401) at line 53, which line 100 rethrows; an
\* AxiosError becomes IONAPIError(error.response?.status || 500,
\* error.response?.data) at lines 93-97
RequestNewTokenError(f) ==
    IF f.via = "body"
    THEN IONAPIError(401, "oauth")
    ELSE LET e == AxiosFailure(f)
         IN  IONAPIError(IF e.response.present /\ e.response.status # 0
                         THEN e.response.status ELSE 500,
                         IF e.response.present THEN "body" ELSE "none")

\* requestNewToken of the password-grant manager: an error payload throws
\* parseOAuthError(response.data) inside the try, and the catch, finding no
\* AxiosError, throws unknownError(error.message) in its place; an AxiosError
\* is a networkError for ECONNREFUSED / ETIMEDOUT, parseOAuthError of the
\* response object when there is one, and a networkError otherwise
RequestNewTokenErrorPassword(f) ==
    IF f.via = "body"
    THEN LET raised == ParseOAuthError(ErrorObject(f.oauth, 0, NoResponse))
         IN  IF raised.cls = "AxiosError" THEN raised ELSE UnknownError(0, "none")
    ELSE LET e == AxiosFailure(f)
         IN  IF e.code \in {"ECONNREFUSED", "ETIMEDOUT"} THEN NetworkError
             ELSE IF e.response.present
                  THEN ParseOAuthError(ErrorObject("undefined", e.response.status, NoResponse))
                  ELSE NetworkError

\* The repository holds both managers; a deployment runs one of them
GrantFlows == {"client_credentials", "password"}
TokenError(grant, f) ==
    IF grant = "password" THEN RequestNewTokenErrorPassword(f) ELSE RequestNewTokenError(f)

\* A failed acquisition that leaves its failure in the cache
RequestNewTokenCachesFailure(t, failures, grants) ==
    /\ pc[t] = "acquiring"
    /\ \E f \in failures, grant \in grants :
        LET e == TokenError(grant, f)
        IN  /\ last' = [Last(t, "acquireError", NoToken, 0, 0) EXCEPT !.err = e, !.cause = f]
            /\ pc' = [pc EXCEPT ![t] = AfterTokenError(t, e)]
            /\ thrown' = Rejects(t, e)
    /\ trace' = TraceAuthError(t, trace)
    /\ proactiveFailed' = RecordAuthError(t)
    /\ sentAt' = [sentAt EXCEPT ![t] = 0]
    /\ store' = DriverSet(NoToken, now + 1000, 0, now)
    /\ UNCHANGED <<envVars, now, issued, tokenCalls, lastWrite, tok, ops, reqVars, timerVars>>

\* The token endpoint answers with an error payload or an HTTP error, or the
\* POST fails or times out, in one of the ways of failures: requestNewToken
\* of a manager of grants throws
RequestNewTokenFails(t, failures, grants) ==
    /\ pc[t] = "acquiring"
    /\ \E f \in failures, grant \in grants :
        LET e == TokenError(grant, f)
        IN  /\ last' = [Last(t, "acquireError", NoToken, 0, 0) EXCEPT !.err = e, !.cause = f]
            /\ pc' = [pc EXCEPT ![t] = AfterTokenError(t, e)]
            /\ thrown' = Rejects(t, e)
    /\ trace' = TraceAuthError(t, trace)
    /\ proactiveFailed' = RecordAuthError(t)
    /\ sentAt' = [sentAt EXCEPT ![t] = 0]
    /\ UNCHANGED <<tmVars, tok, ops, reqVars, timerVars>>

\* A failed acquisition that takes the refresher down with it
AcquireFailStops(t) ==
    /\ pc[t] = "acquiring"
    /\ pc' = [pc EXCEPT ![t] = AfterTokenError(t, RequestNewTokenError(TimeoutFailure))]
    /\ last' = Last(t, "acquireError", NoToken, 0, 0)
    /\ trace' = TraceAuthError(t, trace)
    /\ proactiveFailed' = RecordAuthError(t)
    /\ sentAt' = [sentAt EXCEPT ![t] = 0]
    /\ isRunning' = IF t \in Ticks THEN FALSE ELSE isRunning
    /\ intervalId' = IF t \in Ticks THEN FALSE ELSE intervalId
    /\ timers' = IF t \in Ticks THEN 0 ELSE timers
    /\ UNCHANGED <<tmVars, tok, thrown, ops, reqVars, checks, dueAt, startedAt, startChecks>>

\* A failed acquisition where what the failure is does not matter: the
\* client_credentials manager runs into the timeout
AcquireFail(t) == RequestNewTokenFails(t, {TimeoutFailure}, {"client_credentials"})

\* A clearToken that deletes nothing
ClearTokenKeeps(ok) == store' = store

\* clearToken: cache.delete(cacheKey); ok = FALSE when the delete rejects
ClearToken(ok) ==
    store' = IF ok THEN NoEntry ELSE store

----------------------------------------------------------------------------
\* Direct callers of the IONAuthManager

CallerGetAccessToken(c) ==
    /\ pc[c] = "idle"
    /\ ops < MaxOps
    /\ ops' = ops + 1
    /\ GetAccessToken(c, trace)
    /\ UNCHANGED <<envVars, now, issued, lastWrite, reqVars, timerVars>>

CallerClearToken(c) ==
    /\ pc[c] = "idle"
    /\ ops < MaxOps
    /\ ops' = ops + 1
    /\ \E ok \in CacheOutcomes :
        /\ ClearToken(ok)
        /\ last' = Last(c, IF ok THEN "cleared" ELSE "clearError", store.token, 0, 0)
    /\ UNCHANGED <<envVars, now, issued, tokenCalls, lastWrite, pc, tok, thrown, sentAt,
                   trace, reqVars, refVars>>

----------------------------------------------------------------------------
\* IONApiClient.request

IsResponse(e) == e \in {"r200", "r401", "r404", "r0"}
StatusEvent(st) == CASE st = 200 -> "r200" [] st = 401 -> "r401"
                     [] st = 404 -> "r404" [] OTHER -> "r0"

\* request() is called, with or without an X-Retry-Auth header of the
\* caller's own, and reaches getAccessToken (requests are interchangeable:
\* they are numbered in the order of their calls)
ReqStart(r) ==
    /\ pc[r] = "idle"
    /\ trace[r] = <<>>
    /\ \A q \in Requests : q < r => (pc[q] # "idle" \/ trace[q] # <<>>)
    /\ \E hdr \in BOOLEAN :
        /\ hdr0' = [hdr0 EXCEPT ![r] = hdr]
        /\ retryAuth' = [retryAuth EXCEPT ![r] = hdr]
    /\ GetAccessToken(r, trace)
    /\ UNCHANGED <<envVars, now, issued, lastWrite, ops, timerVars>>

\* The upstream answers the attempt (or the attempt fails without a
\* response): lines 125-134 on success, the catch block otherwise.  The
\* token and the bookkeeping of a call that has returned or thrown are gone.
ReqResponse(r) ==
    /\ pc[r] = "upstream"
    /\ \E st \in UpstreamStatuses :
        /\ trace' = [trace EXCEPT ![r] = Append(@, StatusEvent(st))]
        /\ IF st = 200
           THEN /\ pc' = [pc EXCEPT ![r] = "done"]
                /\ tok' = [tok EXCEPT ![r] = NoToken]
                /\ UNCHANGED <<thrown, store>>
           ELSE LET c == RequestCatch(r, UpstreamError(st))
                IN  /\ pc' = [pc EXCEPT ![r] = c.pc]
                    /\ thrown' = [thrown EXCEPT ![r] = c.thrown]
                    /\ tok' = IF c.pc = "done" THEN [tok EXCEPT ![r] = NoToken] ELSE tok
                    /\ store' = IF c.pc = "clearing" THEN SeenBy(store, r) ELSE store
    /\ UNCHANGED <<envVars, now, issued, tokenCalls, lastWrite, sentAt, last, ops, reqVars,
                   refVars>>

\* lines 143-154: await clearToken(), then the recursive call carries
\* X-Retry-Auth; a rejected clearToken rejects the request
ReqClear(r) ==
    /\ pc[r] = "clearing"
    /\ \E ok \in CacheOutcomes :
        /\ ClearToken(ok)
        /\ trace' = [trace EXCEPT ![r] = IF ok THEN Append(@, "clear")
                                         ELSE Append(Append(@, "clear"), "clearError")]
        /\ pc' = [pc EXCEPT ![r] = IF ok THEN "retry" ELSE "done"]
        /\ retryAuth' = [retryAuth EXCEPT ![r] = IF ok THEN TRUE ELSE @]
        /\ thrown' = [thrown EXCEPT ![r] = IF ok THEN @ ELSE CacheErrorThrown]
        /\ last' = Last(r, IF ok THEN "cleared" ELSE "clearError", store.token, 0, 0)
    /\ UNCHANGED <<envVars, now, issued, tokenCalls, lastWrite, tok, sentAt, ops, hdr0, refVars>>

\* The recursive request() reaches getAccessToken
ReqRetry(r) ==
    /\ pc[r] = "retry"
    /\ GetAccessToken(r, trace)
    /\ UNCHANGED <<envVars, now, issued, lastWrite, ops, reqVars, timerVars>>

----------------------------------------------------------------------------
\* TokenRefresher

\* constructor line 25: options.refreshBeforeExpiry || 300
RefreshBeforeExpiry(option) == IF option = 0 THEN DefaultRefreshBeforeExpiry ELSE option

\* index.ts line 15
ConfiguredRefreshBeforeExpiry == 300

\* A threshold test that misses the boundary
NeedsRefreshStrict(expiresAt, t) ==
    expiresAt - t < RefreshBeforeExpiry(ConfiguredRefreshBeforeExpiry) * 1000

\* checkAndRefreshToken lines 93 and 101: (expiresAt - now) / 1000 <= refreshBeforeExpiry
NeedsRefresh(expiresAt, t) ==
    expiresAt - t <= RefreshBeforeExpiry(ConfiguredRefreshBeforeExpiry) * 1000

\* Invocations are interchangeable: a new one takes the lowest free slot
FreeTicks == {k \in Ticks : pc[k] = "idle" /\ \A j \in Ticks : pc[j] = "idle" => k <= j}

\* checkAndRefreshToken up to the decision of line 101, as invocation k
CheckAndRefreshToken(k) ==
    /\ checks' = checks + 1
    /\ \E ok \in CacheOutcomes :
        IF ~ok
        THEN \* cache.get rejects: caught at line 118
             /\ trace' = [trace EXCEPT ![k] = <<"check", "fail">>]
             /\ last' = Last(k, "tickCacheError", NoToken, 0, 0)
             /\ proactiveFailed' = proactiveFailed + 1
             /\ UNCHANGED <<store, pc>>
        ELSE LET e == CacheGet(store, now) IN
             /\ store' = StoreAfterGet(store, now)
             /\ UNCHANGED proactiveFailed
             /\ IF ~e.present
                THEN /\ trace' = [trace EXCEPT ![k] = <<"check", "skip">>]
                     /\ last' = Last(k, "tickAbsent", NoToken, 0, 0)
                     /\ UNCHANGED pc
                ELSE IF NeedsRefresh(e.expiresAt, now)
                THEN /\ trace' = [trace EXCEPT ![k] = <<"check">>]
                     /\ last' = Last(k, "tickRefresh", e.token, e.expiresAt - now, 0)
                     /\ pc' = [pc EXCEPT ![k] = "clearing"]
                ELSE /\ trace' = [trace EXCEPT ![k] = <<"check", "fresh">>]
                     /\ last' = Last(k, "tickFresh", e.token, e.expiresAt - now, 0)
                     /\ UNCHANGED pc

\* constructor line 26: options.checkInterval || 60000
CheckInterval(option) == IF option = 0 THEN DefaultCheckInterval ELSE option

\* index.ts line 16
ConfiguredCheckInterval == 60000

\* A start() without the isRunning guard
StartUnguarded ==
    /\ checks < MaxChecks
    /\ isRunning' = TRUE
    /\ intervalId' = TRUE
    /\ timers' = timers + 1
    /\ dueAt' = now + CheckInterval(ConfiguredCheckInterval)
    /\ startedAt' = now
    /\ startChecks' = checks
    /\ \E k \in FreeTicks : CheckAndRefreshToken(k)
    /\ UNCHANGED <<envVars, now, issued, tokenCalls, lastWrite, tok, thrown, sentAt, ops, reqVars>>

\* start(): warns and returns when running; else sets the flag, runs one
\* check at once (up to its first await) and arms the interval timer
Start ==
    IF isRunning
    THEN UNCHANGED vars
    ELSE /\ checks < MaxChecks
         /\ isRunning' = TRUE
         /\ intervalId' = TRUE
         /\ timers' = timers + 1
         /\ dueAt' = now + CheckInterval(ConfiguredCheckInterval)
         /\ startedAt' = now
         /\ startChecks' = checks
         /\ \E k \in FreeTicks : CheckAndRefreshToken(k)
         /\ UNCHANGED <<envVars, now, issued, tokenCalls, lastWrite, tok, thrown, sentAt, ops, reqVars>>

\* A stop() that clears the flag and leaves the interval timer armed
StopKeepsTimer ==
    /\ isRunning
    /\ isRunning' = FALSE
    /\ UNCHANGED <<tmVars, taskVars, ops, reqVars, trace, checks, proactiveFailed,
                   intervalId, loopVars>>

\* stop(): returns when stopped; else clearInterval(intervalId) and clears
\* the flag
Stop ==
    IF ~isRunning
    THEN UNCHANGED vars
    ELSE /\ timers' = IF intervalId THEN timers - 1 ELSE timers
         /\ dueAt' = 0
         /\ intervalId' = FALSE
         /\ isRunning' = FALSE
         /\ UNCHANGED <<tmVars, taskVars, ops, reqVars, trace, checks, proactiveFailed,
                        startedAt, startChecks>>

\* The interval timer fires once it is due and is rearmed from the instant
\* its callback runs: lines 55-59
TimerFire ==
    /\ timers > 0
    /\ now >= dueAt
    /\ checks < MaxChecks
    /\ dueAt' = now + CheckInterval(ConfiguredCheckInterval)
    /\ \E k \in FreeTicks : CheckAndRefreshToken(k)
    /\ UNCHANGED <<envVars, now, issued, tokenCalls, lastWrite, tok, thrown, sentAt, ops, reqVars,
                   isRunning, intervalId, timers, startedAt, startChecks>>

\* line 107: await this.authManager.clearToken()
TickClear(k) ==
    /\ pc[k] = "clearing"
    /\ \E ok \in CacheOutcomes :
        /\ ClearToken(ok)
        /\ trace' = [trace EXCEPT ![k] = IF ok THEN Append(@, "clear")
                                         ELSE Append(Append(@, "clear"), "fail")]
        /\ pc' = [pc EXCEPT ![k] = IF ok THEN "getToken" ELSE "idle"]
        /\ last' = Last(k, IF ok THEN "cleared" ELSE "clearError", store.token, 0, 0)
        /\ proactiveFailed' = IF ok THEN proactiveFailed ELSE proactiveFailed + 1
    /\ UNCHANGED <<envVars, now, issued, tokenCalls, lastWrite, tok, thrown, sentAt, ops, reqVars, timerVars>>

\* line 110: await this.authManager.getAccessToken()
TickGetToken(k) ==
    /\ pc[k] = "getToken"
    /\ GetAccessToken(k, [trace EXCEPT ![k] = Append(@, "get")])
    /\ UNCHANGED <<envVars, now, issued, lastWrite, ops, reqVars, timerVars>>

\* refreshNow(): slot is its checkAndRefreshToken invocation while that is
\* awaited (0 otherwise), did what the latest settled one has done
Manual(slot, calls, resolved, rejected, did, wasRunning) ==
    [slot |-> slot, calls |-> calls, resolved |-> resolved, rejected |-> rejected,
     did |-> did, wasRunning |-> wasRunning]
NoManual == Manual(0, 0, 0, 0, <<>>, FALSE)

\* A catch that rethrows what it has recorded
CheckAndRefreshTokenRethrows(k) ==
    trace[k] # <<>> /\ trace[k][Len(trace[k])] = "fail"

\* lines 118-128: the catch of checkAndRefreshToken records the failure and
\* does not rethrow, so the promise of invocation k never rejects
CheckAndRefreshTokenRejects(k) == FALSE

\* refreshNow() lines 134-137: calls checkAndRefreshToken, whatever isRunning
RefreshNow ==
    /\ manual.slot = 0
    /\ checks < MaxChecks
    /\ \E k \in FreeTicks :
        /\ CheckAndRefreshToken(k)
        /\ manual' = [manual EXCEPT !.slot = k, !.calls = @ + 1, !.wasRunning = isRunning]
    /\ UNCHANGED <<nonManual, now, issued, tokenCalls, lastWrite, tok, thrown, sentAt, ops,
                   reqVars, isRunning, intervalId, loopVars>>

\* The awaited invocation has ended and its continuation has not run yet
RefreshNowPending == manual.slot # 0 /\ pc[manual.slot] = "idle"

\* refreshNow() lines 138-142: the await returns (recordTokenRefresh('manual',
\* true)) or throws (recordTokenRefresh('manual', false) and rethrow)
RefreshNowSettles ==
    /\ RefreshNowPending
    /\ manual' = [manual EXCEPT
                     !.slot = 0,
                     !.did = trace[manual.slot],
                     !.resolved = IF CheckAndRefreshTokenRejects(manual.slot) THEN @ ELSE @ + 1,
                     !.rejected = IF CheckAndRefreshTokenRejects(manual.slot) THEN @ + 1 ELSE @]
    /\ UNCHANGED <<nonManual, now, managerVars>>

----------------------------------------------------------------------------
\* The clock and the in-process driver's sweep

Advance(points) ==
    /\ \E t \in points : t > now /\ now' = t
    /\ UNCHANGED <<envVars, store, issued, tokenCalls, lastWrite, taskVars, ops, reqVars,
                   trace, refVars>>

\* MemoryCacheDriver.startCleanupInterval: drop the entry when expired
Sweep ==
    /\ backend = "memory"
    /\ EntryExpired(store, now)
    /\ store' = NoEntry
    /\ UNCHANGED <<envVars, now, issued, tokenCalls, lastWrite, taskVars, ops, reqVars,
                   trace, refVars>>

----------------------------------------------------------------------------

----------------------------------------------------------------------------
\* The cache drivers, key by key (memory.driver.ts, redis.driver.ts)

\* A string is held as the sequence of its pieces; ":" is a piece
DriverKeys == {<<"k1">>, <<"k2">>}

\* auth.ts line 9 and health-check.service.ts line 41
TokenKey == <<"ion", ":", "oauth", ":", "token">>
HealthKey == <<"health", ":", "check", ":", "test">>

\* Paths under the proxy route: one under the prefix '/m3api-rest/' and one
\* under '/IDM/api/items', one outside the configured prefixes, and one under
\* '/m3api-rest/' that goes on with ':GET:' and the path outside
M3Path == <<"/m3api-rest/", "x">>
ItemsPath == <<"/IDM/api/items">>
OtherPath == <<"/other/", "y">>
OddPath == M3Path \o <<":", "GET", ":">> \o OtherPath

\* X-Client-ID values; the last one is 'A:GET:' followed by M3Path
ClientA == <<"A">>
ClientB == <<"B">>
OddClient == ClientA \o <<":", "GET", ":">> \o M3Path
NoHeader == <<>>

\* req.query: the parameters in the order of the query string
QueryAB == << <<"a", "1">>, <<"b", "2">> >>
QueryBA == << <<"b", "2">>, <<"a", "1">> >>

\* An inbound request: X-Client-ID header (NoHeader when absent), req.ip,
\* method, path and query
ProxyRequest(header, ip, method, path, query) ==
    [header |-> header, ip |-> ip, method |-> method, path |-> path, query |-> query]

\* The inbound requests of the model
ProxyInputs ==
    << ProxyRequest(ClientA, <<"ip1">>, "GET", M3Path, QueryAB),
       ProxyRequest(ClientA, <<"ip1">>, "GET", M3Path, QueryBA),
       ProxyRequest(ClientB, <<"ip2">>, "GET", M3Path, QueryAB),
       ProxyRequest(NoHeader, <<"ip2">>, "GET", M3Path, QueryAB),
       ProxyRequest(ClientA, <<"ip1">>, "POST", M3Path, QueryAB),
       ProxyRequest(ClientA, <<"ip1">>, "GET", ItemsPath, QueryAB),
       ProxyRequest(ClientA, <<"ip1">>, "GET", OtherPath, QueryAB),
       ProxyRequest(ClientA, <<"ip1">>, "GET", OddPath, QueryAB),
       ProxyRequest(OddClient, <<"ip3">>, "GET", OtherPath, QueryAB) >>
ProxyInputIds == 1 .. Len(ProxyInputs)

\* What the upstream answers to a forwarded request: a 200 with an object or
\* with an empty body, a 204, or a failure (status 0)
UpstreamAnswer(status, val) == [status |-> status, val |-> val]
UpstreamAnswers ==
    {UpstreamAnswer(200, "object"), UpstreamAnswer(200, "empty"),
     UpstreamAnswer(204, "empty"), UpstreamAnswer(0, "none")}

\* Instants under the proxy: an entry written at 0 with a TTL of 300 s has
\* expired at the later one, an entry with a TTL of 600 s has not
ProxyTimePoints == {0, 400000}

\* proxy.ts line 257: req.headers['x-client-id'] || req.ip || 'anonymous'
ClientIdentifier(r) ==
    IF r.header # <<>> THEN r.header
    ELSE IF r.ip # <<>> THEN r.ip
    ELSE <<"anonymous">>

\* JSON.stringify(req.query): the members in the order of the object
RECURSIVE JsonMembers(_, _)
JsonMembers(q, i) ==
    IF i > Len(q) THEN <<>>
    ELSE (IF i > 1 THEN <<",">> ELSE <<>>) \o <<q[i][1], ":", q[i][2]>> \o JsonMembers(q, i + 1)
JsonStringifyQuery(q) == <<"{">> \o JsonMembers(q, 1) \o <<"}">>

\* The parameters of a query as a set of name/value pairs
QueryParams(q) == {q[i] : i \in 1 .. Len(q)}

\* CacheManager.key (lines 91-93): parts.join(':')
RECURSIVE KeyJoin(_, _)
KeyJoin(parts, i) ==
    IF i > Len(parts) THEN <<>>
    ELSE (IF i > 1 THEN <<":">> ELSE <<>>) \o parts[i] \o KeyJoin(parts, i + 1)
CacheManagerKey(parts) == KeyJoin(parts, 1)

\* proxy.ts lines 274 and 318
ProxyCacheKey(r) ==
    CacheManagerKey(<< <<"proxy">>, ClientIdentifier(r), <<r.method>>, r.path,
                       JsonStringifyQuery(r.query) >>)

\* CACHE_CONFIG, lines 166-171, in the order of its entries
CacheConfig ==
    << [pattern |-> "/m3api-rest/", ttl |-> 300, methods |-> {"GET"}],
       [pattern |-> "/M3/m3api-rest/", ttl |-> 300, methods |-> {"GET"}],
       [pattern |-> "/IDM/api/items", ttl |-> 600, methods |-> {"GET"}],
       [pattern |-> "/LN/api", ttl |-> 300, methods |-> {"GET"}] >>

\* path.startsWith(pattern); every pattern is one piece
StartsWith(path, pattern) == Len(path) >= 1 /\ path[1] = pattern

\* shouldCache, lines 174-181
ShouldCache(path, method) ==
    LET hits == {i \in 1 .. Len(CacheConfig) :
                    StartsWith(path, CacheConfig[i].pattern) /\ method \in CacheConfig[i].methods}
    IN  IF hits = {} THEN [cache |-> FALSE, ttl |-> 0]
        ELSE [cache |-> TRUE, ttl |-> CacheConfig[CHOOSE i \in hits : \A j \in hits : i <= j].ttl]

ProxyKeys == {ProxyCacheKey(ProxyInputs[i]) : i \in ProxyInputIds}
CacheKeys == DriverKeys \cup ProxyKeys \cup {HealthKey}

\* CacheEntry<T>: value and expiresAt (hasExpiry = FALSE for expiresAt: null
\* and for a Redis key without TTL)
Entry(value, hasExpiry, expiresAt) ==
    [present |-> TRUE, value |-> value, hasExpiry |-> hasExpiry, expiresAt |-> expiresAt]
Absent == [present |-> FALSE, value |-> JsNull, hasExpiry |-> FALSE, expiresAt |-> 0]
EmptyStore == [k \in {} |-> Absent]

\* Map.get, Map.set and Map.delete (a Redis GET, SET and DEL): a key that is
\* not in the map has no entry
At(m, k) == IF k \in DOMAIN m THEN m[k] ELSE Absent
Put(m, k, e) == [x \in DOMAIN m \cup {k} |-> IF x = k THEN e ELSE m[x]]
Del(m, k) == [x \in DOMAIN m \ {k} |-> m[x]]

\* What a driver operation returns or throws
Returned(value, map) == [threw |-> FALSE, value |-> value, map |-> map]
ThrewCacheError(map) == [threw |-> TRUE, value |-> JsValue("CacheError", 0), map |-> map]

\* MemoryCacheDriver lines 21 and 65: entry.expiresAt && entry.expiresAt < now
MemoryExpired(e, t) == e.present /\ e.hasExpiry /\ e.expiresAt < t

\* A get without the lazy expiry check
MemoryGetNoExpiry(m, k, t) ==
    IF ~At(m, k).present THEN Returned(JsNull, m) ELSE Returned(At(m, k).value, m)

\* MemoryCacheDriver.get lines 13-27
MemoryGet(m, k, t) ==
    IF ~At(m, k).present THEN Returned(JsNull, m)
    ELSE IF MemoryExpired(At(m, k), t) THEN Returned(JsNull, Del(m, k))
    ELSE Returned(At(m, k).value, m)

\* MemoryCacheDriver.set lines 29-36: ttlSeconds ? now + ttlSeconds * 1000 : null
MemorySet(m, k, v, ttl, t) ==
    LET truthy == ttl.given /\ ttl.seconds # 0
    IN  Returned(JsUndefined,
                 Put(m, k, Entry(v, truthy, IF truthy THEN t + ttl.seconds * 1000 ELSE 0)))

\* MemoryCacheDriver.delete lines 38-40: Map.delete tells whether the key was
\* in the Map
MemoryDelete(m, k) == Returned(JsBoolean(At(m, k).present), Del(m, k))

\* MemoryCacheDriver.clear lines 42-44
MemoryClear(m) == Returned(JsUndefined, EmptyStore)

\* MemoryCacheDriver.has lines 46-49: (await this.get(key)) !== null
MemoryHas(m, k, t) ==
    LET got == MemoryGet(m, k, t) IN Returned(JsBoolean(got.value # JsNull), got.map)

\* The cleanup interval's callback, lines 60-74
MemorySweep(m, t) == [k \in {x \in DOMAIN m : ~MemoryExpired(m[x], t)} |-> m[k]]

\* JSON.stringify and JSON.parse of a stored value
JsonStringify(v) == <<"json", v>>
JsonParse(text) == text[2]

\* A key of the Redis server is gone once its TTL has elapsed
RedisLive(e, t) == e.present /\ ~(e.hasExpiry /\ e.expiresAt <= t)

\* An operation that answers a failed command as if the key were not there
RedisGuardSilent(client, fails, map, done) ==
    IF client = "null" \/ fails \/ client = "broken" THEN Returned(JsNull, map) ELSE done

\* What every RedisCacheDriver operation does around its command: no client
\* throws CacheError, and so does a command that rejects
RedisGuard(client, fails, map, done) ==
    IF client = "null" THEN ThrewCacheError(map)
    ELSE IF fails \/ client = "broken" THEN ThrewCacheError(map)
    ELSE done

\* RedisCacheDriver.get lines 46-57: value ? JSON.parse(value) : null
RedisGet(r, client, fails, k, t) ==
    RedisGuard(client, fails, r,
               IF RedisLive(At(r, k), t) THEN Returned(JsonParse(At(r, k).value), r)
               ELSE Returned(JsNull, r))

\* RedisCacheDriver.set lines 59-76: SETEX for a truthy ttlSeconds, else SET;
\* the server rejects SETEX with a TTL that is not positive
RedisSet(r, client, fails, k, v, ttl, t) ==
    LET truthy == ttl.given /\ ttl.seconds # 0
    IN  RedisGuard(client, fails \/ (truthy /\ ttl.seconds < 0), r,
                   Returned(JsUndefined,
                            Put(r, k, Entry(JsonStringify(v), truthy,
                                            IF truthy THEN t + ttl.seconds * 1000 ELSE 0))))

\* RedisCacheDriver.delete lines 78-89: DEL result > 0
RedisDelete(r, client, fails, k, t) ==
    RedisGuard(client, fails, r, Returned(JsBoolean(RedisLive(At(r, k), t)), Del(r, k)))

\* RedisCacheDriver.clear lines 91-104: DEL of KEYS prefix*
RedisClear(r, client, fails) == RedisGuard(client, fails, r, Returned(JsUndefined, EmptyStore))

\* RedisCacheDriver.has lines 106-117: EXISTS === 1
RedisHas(r, client, fails, k, t) ==
    RedisGuard(client, fails, r, Returned(JsBoolean(RedisLive(At(r, k), t)), r))

\* The record of a driver operation: its number, the operation, the key, the
\* instant, whether the Redis command was made to fail, whether the client
\* was there, and what the in-process and the Redis driver answered
DriverResult(n, op, k, fails, m, r) ==
    [n |-> n, op |-> op, key |-> k, at |-> now, fails |-> fails, client |-> rclient,
     mem |-> [threw |-> m.threw, value |-> m.value],
     red |-> [threw |-> r.threw, value |-> r.value]]
NoDriverResult ==
    [n |-> 0, op |-> "none", key |-> <<>>, at |-> 0, fails |-> FALSE, client |-> "ready",
     mem |-> [threw |-> FALSE, value |-> JsValue("none", 0)],
     red |-> [threw |-> FALSE, value |-> JsValue("none", 0)]]

\* One operation applied to both drivers
Apply(op, k, fails, m, r) ==
    /\ dres.n < MaxDriverOps
    /\ mem' = m.map
    /\ red' = r.map
    /\ dres' = DriverResult(dres.n + 1, op, k, fails, m, r)
    /\ UNCHANGED <<appVars, backend, now, rclient, proxy, managerVars>>

CacheDriverGet(fails) ==
    \E k \in DriverKeys :
        Apply("get", k, fails, MemoryGet(mem, k, now), RedisGet(red, rclient, fails, k, now))

CacheDriverSet(fails) ==
    \E k \in DriverKeys, v \in DriverValues, ttl \in TtlValues :
        Apply("set", k, fails, MemorySet(mem, k, v, ttl, now),
              RedisSet(red, rclient, fails, k, v, ttl, now))

CacheDriverDelete(fails) ==
    \E k \in DriverKeys :
        Apply("delete", k, fails, MemoryDelete(mem, k), RedisDelete(red, rclient, fails, k, now))

CacheDriverClear(fails) ==
    Apply("clear", <<>>, fails, MemoryClear(mem), RedisClear(red, rclient, fails))

CacheDriverHas(fails) ==
    \E k \in DriverKeys :
        Apply("has", k, fails, MemoryHas(mem, k, now), RedisHas(red, rclient, fails, k, now))

\* The cleanup interval of the in-process driver fires
DriverSweep ==
    /\ mem' = MemorySweep(mem, now)
    /\ mem' # mem
    /\ UNCHANGED <<appVars, backend, now, red, rclient, dres, proxy, managerVars>>

DriverAdvance ==
    /\ \E t \in DriverTimePoints : t > now /\ now' = t
    /\ UNCHANGED <<appVars, backend, drvVars, proxy, managerVars>>

\* RedisCacheDriver.connect lines 15-44: the client is assigned before the
\* ping, so a failed connect leaves a client that cannot serve
RedisConnect ==
    /\ rclient = "null"
    /\ \E ok \in BOOLEAN : rclient' = IF ok THEN "ready" ELSE "broken"
    /\ UNCHANGED <<appVars, backend, now, mem, red, dres, proxy, managerVars>>

\* RedisCacheDriver.disconnect lines 119-124
RedisDisconnect ==
    /\ rclient # "null"
    /\ rclient' = "null"
    /\ UNCHANGED <<appVars, backend, now, mem, red, dres, proxy, managerVars>>

----------------------------------------------------------------------------
\* The proxy route (routes/proxy.ts) and the cache health check

\* The Map or the keyspace of the configured driver
DriverMap == IF backend = "memory" THEN mem ELSE red

\* CacheManager.get, set and delete on the configured driver, lines 32-52;
\* set hands on options?.ttlSeconds ?? this.defaultTtl
CacheManagerGet(map, k) ==
    IF backend = "memory" THEN MemoryGet(map, k, now)
    ELSE RedisGet(map, rclient, FALSE, k, now)
CacheManagerSet(map, k, v, hasOption, ttlSeconds) ==
    LET ttl == Ttl(TRUE, EffectiveTtl(hasOption, ttlSeconds))
    IN  IF backend = "memory" THEN MemorySet(map, k, v, ttl, now)
        ELSE RedisSet(map, rclient, FALSE, k, v, ttl, now)
CacheManagerDelete(map, k) ==
    IF backend = "memory" THEN MemoryDelete(map, k)
    ELSE RedisDelete(map, rclient, FALSE, k, now)

\* The driver's entries after an operation
DriverMapBecomes(map) ==
    IF backend = "memory" THEN mem' = map /\ red' = red ELSE red' = map /\ mem' = mem

\* JavaScript truthiness of a cached or received body
Truthy(v) == v.val \notin {"null", "undefined", "empty", "false"}

\* The response to an inbound request: the number of the request, its input,
\* the instant, the X-Cache header, the status and the body sent (status 0
\* when the handler threw), the upstream calls and the token lookups made
\* for it, whether it wrote the response cache, and the same of the request
\* before it
ProxySummary(req, at, xcache, status, body) ==
    [req |-> req, at |-> at, xcache |-> xcache, status |-> status, body |-> body]
NoProxySummary == ProxySummary(0, 0, "none", 0, JsNull)
ProxyResponse(n, req, xcache, status, body, upstream, tokens, wrote, prev) ==
    [n |-> n, req |-> req, at |-> now, xcache |-> xcache, status |-> status, body |-> body,
     upstream |-> upstream, tokens |-> tokens, wrote |-> wrote, prev |-> prev]
NoProxyResponse ==
    [n |-> 0, req |-> 0, at |-> 0, xcache |-> "none", status |-> 0, body |-> JsNull,
     upstream |-> 0, tokens |-> 0, wrote |-> FALSE, prev |-> NoProxySummary]

\* ionClient.request obtains a token: the cached one, or a new one with
\* expires_in = 3600 that requestNewToken puts in the cache
TokenEntryAfterLookup ==
    IF CacheHit(CacheGet(store, now), now) THEN store
    ELSE LET token == [id |-> issued + 1, issuedAt |-> now, receivedAt |-> now, expiresIn |-> 3600]
         IN  DriverSet(token, TokenExpiresAt(3600, now), TokenTtl(3600), now)

\* The entry under the token's key after a cache.set of a response body
TokenEntryOverwritten == DriverSet([NoToken EXCEPT !.id = -1], 0, 0, now)

\* A write condition that ignores the status of the upstream's answer
ShouldWriteAnyStatus(method, status, cacheConfig) == method = "GET" /\ cacheConfig.cache

\* The condition of the cache write, line 316
ShouldWrite(method, status, cacheConfig) ==
    method = "GET" /\ status = 200 /\ cacheConfig.cache

\* proxyRouter.all handler, lines 251-356, for request i answered a by the
\* upstream when it is forwarded
ProxyHandle(i, a) ==
    LET r == ProxyInputs[i]
        key == ProxyCacheKey(r)
        got == IF r.method = "GET" THEN CacheManagerGet(DriverMap, key)
               ELSE Returned(JsNull, DriverMap)
        prev == ProxySummary(proxy.req, proxy.at, proxy.xcache, proxy.status, proxy.body)
        cacheConfig == ShouldCache(r.path, r.method)
        body == JsValue(a.val, i)
        acquires == ~CacheHit(CacheGet(store, now), now)
        writes == ShouldWrite(r.method, a.status, cacheConfig)
    IN  /\ proxy.n < MaxProxyRequests
        /\ IF Truthy(got.value)
           THEN \* lines 277-281
                /\ a = UpstreamAnswer(0, "none")
                /\ proxy' = ProxyResponse(proxy.n + 1, i, "HIT", 200, got.value, 0, 0, FALSE, prev)
                /\ DriverMapBecomes(got.map)
                /\ UNCHANGED <<store, issued, tokenCalls, lastWrite>>
           ELSE \* lines 284-324
                /\ acquires => issued < MaxIssued
                /\ issued' = IF acquires THEN issued + 1 ELSE issued
                /\ tokenCalls' = IF acquires THEN tokenCalls + 1 ELSE tokenCalls
                /\ lastWrite' = IF acquires THEN issued + 1 ELSE lastWrite
                /\ IF a.status = 0
                   THEN /\ proxy' = ProxyResponse(proxy.n + 1, i, "none", 0, JsNull, 1, 1, FALSE, prev)
                        /\ DriverMapBecomes(got.map)
                        /\ store' = TokenEntryAfterLookup
                   ELSE /\ proxy' = ProxyResponse(proxy.n + 1, i, "MISS", a.status, body, 1, 1,
                                                  writes, prev)
                        /\ IF writes /\ key # TokenKey
                           THEN DriverMapBecomes(
                                    CacheManagerSet(got.map, key, body, TRUE, cacheConfig.ttl).map)
                           ELSE DriverMapBecomes(got.map)
                        /\ store' = IF writes /\ key = TokenKey THEN TokenEntryOverwritten
                                    ELSE TokenEntryAfterLookup
        /\ UNCHANGED <<appVars, backend, now, rclient, dres, taskVars, ops, reqVars, trace, refVars>>

\* A cache health check that empties the cache
CheckCacheClears ==
    /\ dres.n < MaxDriverOps
    /\ dres' = DriverResult(dres.n + 1, "health", HealthKey, FALSE,
                            Returned(JsNull, mem), Returned(JsNull, red))
    /\ DriverMapBecomes(EmptyStore)
    /\ store' = NoEntry
    /\ UNCHANGED <<appVars, backend, now, rclient, proxy, issued, tokenCalls, lastWrite, taskVars, ops,
                   reqVars, trace, refVars>>

\* HealthCheckService.checkCache, lines 37-68: set, get and delete of
\* 'health:check:test'
CheckCache ==
    LET testValue == JsValue("timestamp", 0)
        afterSet == CacheManagerSet(DriverMap, HealthKey, testValue, TRUE, 10)
        retrieved == CacheManagerGet(afterSet.map, HealthKey)
        afterDelete == CacheManagerDelete(retrieved.map, HealthKey)
    IN  /\ dres.n < MaxDriverOps
        /\ dres' = DriverResult(dres.n + 1, "health", HealthKey, FALSE,
                                [retrieved EXCEPT !.map = mem], [retrieved EXCEPT !.map = red])
        /\ DriverMapBecomes(afterDelete.map)
        /\ UNCHANGED <<appVars, backend, now, rclient, proxy, managerVars>>

\* A checkCache call: where it is, its testValue, what cache.get gave it,
\* the status it returned and whether a cache operation of it has rejected
HealthCheck(at, testValue, retrieved, status, failed) ==
    [pc |-> at, testValue |-> testValue, retrieved |-> retrieved, status |-> status,
     failed |-> failed]
NoHealthCheck == HealthCheck("idle", JsNull, JsNull, "none", FALSE)

\* lines 47-56: retrieved !== testValue throws, and the throw is answered
\* 'error' by the catch
CacheStatus(retrieved, testValue) == IF retrieved # testValue THEN "error" ELSE "connected"

\* lines 57-66: the catch answers a rejected cache operation
CheckCacheCaught(c) == [c EXCEPT !.pc = "done", !.status = "error", !.failed = TRUE]

\* checkCache lines 38-44, called for request h: testValue is the clock's
\* reading, and cache.set is called.  The awaits of the in-process driver
\* resolve without I/O, so there the call runs to its end before anything
\* else does; a Redis command is executed when it is sent, and the call goes
\* on when the answer is back
CheckCacheSets(h) ==
    /\ health[h].pc = "idle"
    /\ LET testValue == JsValue("timestamp", now)
       IN  IF backend = "memory"
           THEN LET afterSet == CacheManagerSet(mem, HealthKey, testValue, TRUE, 10)
                    retrieved == CacheManagerGet(afterSet.map, HealthKey)
                    afterDelete == CacheManagerDelete(retrieved.map, HealthKey)
                IN  /\ mem' = afterDelete.map
                    /\ health' = [health EXCEPT ![h] =
                           HealthCheck("done", testValue, retrieved.value,
                                       CacheStatus(retrieved.value, testValue), FALSE)]
                    /\ UNCHANGED red
           ELSE \E fails \in BOOLEAN :
                LET done == RedisSet(red, rclient, fails, HealthKey, testValue,
                                     Ttl(TRUE, EffectiveTtl(TRUE, 10)), now)
                IN  /\ red' = done.map
                    /\ health' = [health EXCEPT ![h] =
                           IF done.threw THEN CheckCacheCaught(@)
                           ELSE [@ EXCEPT !.pc = "set", !.testValue = testValue]]
                    /\ UNCHANGED mem
    /\ UNCHANGED <<nonHealth, rclient, dres, now, managerVars>>

\* line 45: cache.get(testKey) once the set is answered
CheckCacheGets(h) ==
    /\ health[h].pc = "set"
    /\ \E fails \in BOOLEAN :
        LET done == RedisGet(red, rclient, fails, HealthKey, now)
        IN  /\ red' = done.map
            /\ health' = [health EXCEPT ![h] =
                   IF done.threw THEN CheckCacheCaught(@)
                   ELSE [@ EXCEPT !.pc = "got", !.retrieved = done.value]]
    /\ UNCHANGED <<nonHealth, mem, rclient, dres, now, managerVars>>

\* line 46: cache.delete(testKey) once the get is answered
CheckCacheDeletes(h) ==
    /\ health[h].pc = "got"
    /\ \E fails \in BOOLEAN :
        LET done == RedisDelete(red, rclient, fails, HealthKey, now)
        IN  /\ red' = done.map
            /\ health' = [health EXCEPT ![h] =
                   IF done.threw THEN CheckCacheCaught(@) ELSE [@ EXCEPT !.pc = "deleted"]]
    /\ UNCHANGED <<nonHealth, mem, rclient, dres, now, managerVars>>

\* lines 48-56: the comparison and the answer, once the delete is answered
CheckCacheReturns(h) ==
    /\ health[h].pc = "deleted"
    /\ health' = [health EXCEPT ![h] =
           [@ EXCEPT !.pc = "done",
                     !.status = CacheStatus(health[h].retrieved, health[h].testValue)]]
    /\ UNCHANGED <<nonHealth, drvVars, now, managerVars>>

\* Time passes between the steps of the health checks
HealthAdvance ==
    /\ \E t \in HealthTimePoints : t > now /\ now' = t
    /\ UNCHANGED <<envVars, managerVars>>

\* authMiddleware and requirePermission (middleware/auth.ts and
\* middleware/permissions.ts).  A permission is a sequence of pieces.
AnyPermission == <<"*">>
OrderRead == <<"manufacturing-order", ":", "read">>
OrderAny == <<"manufacturing-order", ":", "*">>
WorkCenterRead == <<"work-center", ":", "read">>

\* The x-api-key headers of the requests: the two development keys, a
\* registered key, a key nobody registered, and no header
ApiKeyHeaders == {"dev-api-key-mes-workflow", "dev-api-key-mes-ui", "msk_1", "msk_2", "none"}

\* hashApiKey lines 38-43: the SHA-256 of the key and the salt
HashApiKey(apiKey) == <<"sha256", apiKey, "salt">>

\* API_KEYS lines 22-36, and one key registered through registerApiKey
KeyInfo(clientId, permissions) ==
    [present |-> TRUE, clientId |-> clientId, permissions |-> permissions]
NoKeyInfo == [present |-> FALSE, clientId |-> "none", permissions |-> {}]
ApiKeys(hashedKey) ==
    IF hashedKey = HashApiKey("dev-api-key-mes-workflow")
    THEN KeyInfo("mes-workflow-api", {AnyPermission})
    ELSE IF hashedKey = HashApiKey("dev-api-key-mes-ui")
    THEN KeyInfo("mes-workflow-ui", {AnyPermission})
    ELSE IF hashedKey = HashApiKey("msk_1")
    THEN KeyInfo("planner", {OrderAny})
    ELSE NoKeyInfo

\* line 58: cache.key('auth', 'api-key', hashApiKey(apiKey))
AuthCacheKey(apiKey) == CacheManagerKey(<< <<"auth">>, <<"api-key">>, HashApiKey(apiKey) >>)

\* The request after the middlewares: status is "next" when authMiddleware
\* has called next(), else the status it answered; verdict is what
\* requirePermission(required) did with it
AuthRequest(n, apiKey, status, clientId, hasPermissions, permissions, fromCache) ==
    [n |-> n, apiKey |-> apiKey, status |-> status, clientId |-> clientId,
     hasPermissions |-> hasPermissions, permissions |-> permissions, fromCache |-> fromCache,
     required |-> <<>>, verdict |-> "none"]
NoAuthRequest == AuthRequest(0, "none", "none", "none", FALSE, {}, FALSE)

\* authMiddleware lines 49-101 for a request with header apiKey
AuthMiddleware ==
    /\ authReq.n < MaxAuthRequests
    /\ \E apiKey \in ApiKeyHeaders :
        LET hit == CacheManagerGet(DriverMap, AuthCacheKey(apiKey))
            keyInfo == ApiKeys(HashApiKey(apiKey))
        IN  IF apiKey = "none" \* 'API key required'
            THEN /\ authReq' = AuthRequest(authReq.n + 1, apiKey, "401", "none", FALSE, {}, FALSE)
                 /\ UNCHANGED <<mem, red>>
            ELSE IF Truthy(hit.value) \* lines 61-66: permissions are not assigned
            THEN /\ authReq' = AuthRequest(authReq.n + 1, apiKey, "next", hit.value.val,
                                           FALSE, {}, TRUE)
                 /\ DriverMapBecomes(hit.map)
            ELSE IF ~keyInfo.present \* 'Invalid API key'
            THEN /\ authReq' = AuthRequest(authReq.n + 1, apiKey, "401", "none", FALSE, {}, FALSE)
                 /\ DriverMapBecomes(hit.map)
            ELSE /\ authReq' = AuthRequest(authReq.n + 1, apiKey, "next", keyInfo.clientId,
                                           TRUE, keyInfo.permissions, FALSE)
                 /\ DriverMapBecomes(CacheManagerSet(hit.map, AuthCacheKey(apiKey),
                                                     JsValue(keyInfo.clientId, 0), TRUE, 300).map)
    /\ UNCHANGED <<nonAuthReq, rclient, dres, now, managerVars>>

\* matchesPermission, permissions.ts lines 16-27
MatchesPermission(required, granted) ==
    \/ granted = AnyPermission
    \/ granted = required
    \/ /\ Len(granted) >= 2
       /\ SubSeq(granted, Len(granted) - 1, Len(granted)) = <<":", "*">>
       /\ LET prefix == SubSeq(granted, 1, Len(granted) - 2) \o <<":">>
          IN  Len(required) >= Len(prefix) /\ SubSeq(required, 1, Len(prefix)) = prefix

\* The routes' required permissions
RequiredPermissions == {OrderRead, WorkCenterRead}

\* The verdict lines 34-52 reach for a request with these permissions
PermissionVerdict(hasPermissions, permissions, required) ==
    IF ~hasPermissions THEN "403"
    ELSE IF \E granted \in permissions : MatchesPermission(required, granted) THEN "next"
    ELSE "403"

\* requirePermission(required), permissions.ts lines 32-67, after
\* authMiddleware has called next()
RequirePermission ==
    /\ authReq.status = "next"
    /\ authReq.verdict = "none"
    /\ \E required \in RequiredPermissions :
        authReq' = [authReq EXCEPT
                      !.required = required,
                      !.verdict = PermissionVerdict(authReq.hasPermissions,
                                                    authReq.permissions, required)]
    /\ UNCHANGED <<nonAuthReq, drvVars, now, managerVars>>

\* Time passes the 300 s an auth cache entry lives
AuthAdvance ==
    /\ now = 0
    /\ now' = 400000
    /\ UNCHANGED <<envVars, managerVars>>

\* CacheManager (cache/index.ts): driver is null until initialize().  The
\* record of a call: its number, the operation, the key, whether set was
\* given a ttlSeconds, what was returned or thrown, and how many calls have
\* been refused for want of a driver so far
CacheCall(driver, n, op, k, hasOption, threw, value, refused) ==
    [driver |-> driver, n |-> n, op |-> op, key |-> k, hasOption |-> hasOption,
     threw |-> threw, value |-> value, refused |-> refused]
NoCacheCall == CacheCall("null", 0, "none", <<>>, FALSE, FALSE, JsUndefined, 0)
NotInitialized == JsValue("Cache not initialized", 0)

\* initialize() lines 15-30: a new driver of the configured kind; the Redis
\* driver is connected, and a connect that fails rejects the call
CacheInitialize ==
    /\ cache.n < MaxCacheCalls
    /\ IF backend = "memory"
       THEN /\ mem' = EmptyStore
            /\ cache' = CacheCall("memory", cache.n + 1, "initialize", <<>>, FALSE, FALSE,
                                  JsUndefined, cache.refused)
            /\ UNCHANGED <<red, rclient>>
       ELSE /\ \E ok \in BOOLEAN :
                /\ rclient' = IF ok THEN "ready" ELSE "broken"
                /\ cache' = CacheCall("redis", cache.n + 1, "initialize", <<>>, FALSE, ~ok,
                                      IF ok THEN JsUndefined ELSE JsValue("CacheError", 0),
                                      cache.refused)
            /\ UNCHANGED <<mem, red>>
    /\ UNCHANGED <<nonCache, dres, now, managerVars>>

\* What the driver does for an operation of the manager
CacheDriverApply(op, k, v, ttl) ==
    IF cache.driver = "memory"
    THEN CASE op = "get" -> MemoryGet(mem, k, now)
           [] op = "set" -> MemorySet(mem, k, v, ttl, now)
           [] op = "delete" -> MemoryDelete(mem, k)
           [] op = "clear" -> MemoryClear(mem)
           [] op = "has" -> MemoryHas(mem, k, now)
    ELSE CASE op = "get" -> RedisGet(red, rclient, FALSE, k, now)
           [] op = "set" -> RedisSet(red, rclient, FALSE, k, v, ttl, now)
           [] op = "delete" -> RedisDelete(red, rclient, FALSE, k, now)
           [] op = "clear" -> RedisClear(red, rclient, FALSE)
           [] op = "has" -> RedisHas(red, rclient, FALSE, k, now)

\* get, set, delete, clear and has, lines 32-65: without a driver the call
\* throws Error('Cache not initialized'); set hands on
\* options?.ttlSeconds ?? this.defaultTtl
CacheManagerCall ==
    /\ cache.n < MaxCacheCalls
    /\ \E op \in {"get", "set", "delete", "clear", "has"}, hasOption \in BOOLEAN :
        /\ hasOption => op = "set"
        /\ IF cache.driver = "null"
           THEN /\ cache' = CacheCall("null", cache.n + 1, op, TokenKey, hasOption, TRUE,
                                      NotInitialized, cache.refused + 1)
                /\ UNCHANGED <<mem, red>>
           ELSE LET done == CacheDriverApply(op, TokenKey, JsValue("v", 0),
                                             Ttl(TRUE, EffectiveTtl(hasOption, 10)))
                IN  /\ cache' = CacheCall(cache.driver, cache.n + 1, op, TokenKey, hasOption,
                                          done.threw, done.value, cache.refused)
                    /\ IF cache.driver = "memory"
                       THEN mem' = done.map /\ red' = red
                       ELSE red' = done.map /\ mem' = mem
    /\ UNCHANGED <<nonCache, rclient, dres, now, managerVars>>

\* disconnect() lines 67-71: this.driver?.disconnect; the in-process driver
\* empties its Map, the Redis driver quits and drops its client
CacheDisconnect ==
    /\ cache.n < MaxCacheCalls
    /\ cache' = CacheCall(cache.driver, cache.n + 1, "disconnect", <<>>, FALSE, FALSE,
                         JsUndefined, cache.refused)
    /\ mem' = IF cache.driver = "memory" THEN EmptyStore ELSE mem
    /\ rclient' = IF cache.driver = "redis" THEN "null" ELSE rclient
    /\ UNCHANGED <<nonCache, red, dres, now, managerVars>>

\* The cleanup interval of the in-process driver, on the response entries
\* and on the token entry
ProxySweep ==
    /\ backend = "memory"
    /\ mem' = MemorySweep(mem, now)
    /\ store' = IF EntryExpired(store, now) THEN NoEntry ELSE store
    /\ mem' # mem \/ store' # store
    /\ UNCHANGED <<appVars, backend, now, red, rclient, dres, proxy, issued, tokenCalls, lastWrite,
                   taskVars, ops, reqVars, trace, refVars>>

ProxyAdvance ==
    /\ \E t \in ProxyTimePoints : t > now /\ now' = t
    /\ UNCHANGED <<appVars, backend, drvVars, proxy, managerVars>>

----------------------------------------------------------------------------
\* The singleton refresher (token-refresher.ts lines 161-199)

\* A TokenRefresher object: its isRunning flag and whether its intervalId
\* holds an armed timer
Refresher(running, armed) == [isRunning |-> running, intervalId |-> armed]

\* What a singleton function returned: the function, the instance (0 for
\* null or void) and that instance's getStatus().isRunning
SingletonResult(op, value, running) == [op |-> op, value |-> value, running |-> running]
NoSingletonResult == SingletonResult("none", 0, FALSE)

Instances == 1 .. Len(instances)

\* start() of an instance that is not running, lines 47-59: the flag, one
\* check at once and a new interval timer
RefresherStarts(after) ==
    /\ checks < MaxChecks
    /\ instances' = after
    /\ timers' = timers + 1
    /\ \E k \in FreeTicks : CheckAndRefreshToken(k)
    /\ UNCHANGED <<nonSingleton, now, issued, tokenCalls, lastWrite, tok, thrown,
                   sentAt, ops, reqVars, isRunning, intervalId, dueAt, startedAt, startChecks>>

\* initializeTokenRefresher, lines 167-182: the instance there is, or a new
\* one constructed with autoStart
InitializeTokenRefresher ==
    IF tokenRefresher # 0
    THEN /\ sres' = SingletonResult("initialize", tokenRefresher,
                                    instances[tokenRefresher].isRunning)
         /\ UNCHANGED <<tokenRefresher, instances, nonSingleton, now, managerVars>>
    ELSE /\ Len(instances) < MaxInstances
         /\ tokenRefresher' = Len(instances) + 1
         /\ sres' = SingletonResult("initialize", Len(instances) + 1, TRUE)
         /\ RefresherStarts(Append(instances, Refresher(TRUE, TRUE)))

\* getTokenRefresher, lines 187-189
GetTokenRefresher ==
    /\ sres' = SingletonResult("get", tokenRefresher,
                               tokenRefresher # 0 /\ instances[tokenRefresher].isRunning)
    /\ UNCHANGED <<tokenRefresher, instances, nonSingleton, now, managerVars>>

\* stop() of instance i, lines 65-78
RefresherStopped(i) ==
    IF ~instances[i].isRunning THEN instances
    ELSE [instances EXCEPT ![i] = Refresher(FALSE, FALSE)]
TimersAfterStop(i) ==
    IF instances[i].isRunning /\ instances[i].intervalId THEN timers - 1 ELSE timers

\* stopTokenRefresher, lines 194-199
StopTokenRefresher ==
    /\ sres' = SingletonResult("stop", 0, FALSE)
    /\ tokenRefresher' = 0
    /\ instances' = IF tokenRefresher # 0 THEN RefresherStopped(tokenRefresher) ELSE instances
    /\ timers' = IF tokenRefresher # 0 THEN TimersAfterStop(tokenRefresher) ELSE timers
    /\ UNCHANGED <<nonSingleton, now, store, issued, tokenCalls, lastWrite,
                   taskVars, ops, reqVars, trace, isRunning,
                   intervalId, checks, proactiveFailed, dueAt, startedAt, startChecks>>

\* start() called on an instance that initializeTokenRefresher returned
\* earlier
InstanceStart(i) ==
    /\ ~instances[i].isRunning
    /\ RefresherStarts([instances EXCEPT ![i] = Refresher(TRUE, TRUE)])
    /\ UNCHANGED <<tokenRefresher, sres>>

\* stop() called on such an instance
InstanceStop(i) ==
    /\ instances[i].isRunning
    /\ instances' = RefresherStopped(i)
    /\ timers' = TimersAfterStop(i)
    /\ UNCHANGED <<tokenRefresher, sres, nonSingleton, now, store, issued,
                   tokenCalls, lastWrite, taskVars, ops, reqVars,
                   trace, isRunning, intervalId, checks, proactiveFailed, dueAt, startedAt,
                   startChecks>>

----------------------------------------------------------------------------
\* The error path of a proxied request (routes/proxy.ts lines 325-355,
\* middleware/error-handler.ts)

\* err instanceof AppError: IONAPIError and CacheError extend AppError
\* (errors.ts), IONAuthenticationError extends Error (auth-errors.ts line 25)
IsAppError(e) == e.cls \in {"IONAPIError", "CacheError"}

\* The catch block of the proxy handler: an error named IONAPIError has the
\* proxied URL added to its details, any error is thrown on
ProxyCatch(e) ==
    [error |-> e,
     details |-> IF e.cls = "IONAPIError"
                 THEN (IF e.details = "none" THEN {} ELSE {e.details}) \cup {"proxiedUrl"}
                 ELSE IF e.details = "none" THEN {} ELSE {e.details}]

\* The response of errorHandler, lines 13-36, to what the proxy handler
\* threw: status, the envelope's code, whether it holds a stack and the
\* details it holds
HttpResponse(n, err, dev, status, code, stack, details) ==
    [n |-> n, err |-> err, dev |-> dev, status |-> status, code |-> code, stack |-> stack,
     details |-> details]
NoHttpResponse == HttpResponse(0, NoError, FALSE, 0, "none", FALSE, {})
ErrorHandler(caught, isDevelopment) ==
    LET err == caught.error
        isAppError == IsAppError(err)
    IN  HttpResponse(1, err, isDevelopment,
                     IF isAppError THEN err.status ELSE 500,
                     IF isAppError THEN err.code ELSE "INTERNAL_SERVER_ERROR",
                     isDevelopment,
                     IF isAppError THEN caught.details ELSE {})

\* The request r of the proxy handler has rejected: the handler's catch
\* block throws the error on and errorHandler answers, in development mode
\* or not
ErrorHandled(r) ==
    /\ pc[r] = "done"
    /\ thrown[r] # NoError
    /\ res = NoHttpResponse
    /\ \E isDevelopment \in BOOLEAN : res' = ErrorHandler(ProxyCatch(thrown[r]), isDevelopment)
    /\ UNCHANGED <<nonRes, now, managerVars>>

----------------------------------------------------------------------------
\* The body of the token request (auth.ts lines 36-49 and the password-grant
\* manager, auth.test.ts lines 437-494)

\* Which of config.ion's fields are populated
Credentials(tokenEndpoint, clientId, clientSecret, username, password) ==
    [tokenEndpoint |-> tokenEndpoint, clientId |-> clientId, clientSecret |-> clientSecret,
     username |-> username, password |-> password]
AllCredentials ==
    {Credentials(e, i, s, u, p) : e \in BOOLEAN, i \in BOOLEAN, s \in BOOLEAN,
                                  u \in BOOLEAN, p \in BOOLEAN}

\* The constructor: the client_credentials manager checks nothing, the
\* password-grant manager throws a configuration error unless all five
\* fields are populated
ConstructorThrows(grant, c) ==
    /\ grant = "password"
    /\ ~(c.tokenEndpoint /\ c.clientId /\ c.clientSecret /\ c.username /\ c.password)

\* new URLSearchParams({...}) of requestNewToken: the grant_type and the
\* names of the other fields
TokenRequestBody(grant) ==
    IF grant = "password"
    THEN [grant_type |-> "password",
          fields |-> {"client_id", "client_secret", "username", "password"}]
    ELSE [grant_type |-> "client_credentials", fields |-> {"client_id", "client_secret"}]

TokenRequest(phase, grant, credentials, body) ==
    [phase |-> phase, grant |-> grant, credentials |-> credentials, body |-> body]
NoBody == [grant_type |-> "none", fields |-> {}]
NoTokenRequest == TokenRequest("unconfigured", "none", Credentials(FALSE, FALSE, FALSE, FALSE, FALSE), NoBody)

\* The process starts with some credentials in its configuration
Configure ==
    /\ tokenRequest.phase = "unconfigured"
    /\ \E c \in AllCredentials, grant \in GrantFlows :
        tokenRequest' = TokenRequest("configured", grant, c, NoBody)
    /\ UNCHANGED <<nonTokenRequest, now, managerVars>>

\* new IONAuthManager()
ConstructManager ==
    /\ tokenRequest.phase = "configured"
    /\ tokenRequest' =
         [tokenRequest EXCEPT !.phase =
             IF ConstructorThrows(tokenRequest.grant, tokenRequest.credentials)
             THEN "configurationError" ELSE "constructed"]
    /\ UNCHANGED <<nonTokenRequest, now, managerVars>>

\* requestNewToken posts to the token endpoint
PostTokenRequest ==
    /\ tokenRequest.phase = "constructed"
    /\ tokenRequest' = [tokenRequest EXCEPT !.phase = "posted",
                                            !.body = TokenRequestBody(tokenRequest.grant)]
    /\ UNCHANGED <<nonTokenRequest, now, managerVars>>

----------------------------------------------------------------------------

\* The state once CacheManager.initialize() has run
InitManager ==
    /\ backend \in {"memory", "redis"}
    /\ now = 0
    /\ store = NoEntry
    /\ issued = 0
    /\ tokenCalls = 0
    /\ lastWrite = 0
    /\ pc = [t \in Tasks |-> "idle"]
    /\ tok = [r \in Requests |-> NoToken]
    /\ thrown = [r \in Requests |-> NoError]
    /\ sentAt = [t \in Tasks |-> 0]
    /\ last = NoLast
    /\ ops = 0
    /\ retryAuth = [r \in Requests |-> FALSE]
    /\ hdr0 = [r \in Requests |-> FALSE]
    /\ trace = [t \in Requests \cup Ticks |-> <<>>]
    /\ isRunning = FALSE
    /\ intervalId = FALSE
    /\ checks = 0
    /\ proactiveFailed = 0
    /\ timers = 0
    /\ dueAt = 0
    /\ startedAt = 0
    /\ startChecks = 0
    /\ mem = EmptyStore
    /\ red = EmptyStore
    /\ dres = NoDriverResult
    /\ proxy = NoProxyResponse
    /\ tokenRefresher = 0
    /\ instances = <<>>
    /\ sres = NoSingletonResult
    /\ res = NoHttpResponse
    /\ tokenRequest = NoTokenRequest
    /\ manual = NoManual
    /\ health = [h \in HealthChecks |-> NoHealthCheck]
    /\ authReq = NoAuthRequest
    /\ cache = NoCacheCall

Init == InitManager /\ rclient = "ready"

\* A RedisCacheDriver that has been constructed and not connected yet
InitRedis == InitManager /\ rclient = "null"

\* The token manager under direct callers, with the clock running
AuthNext ==
    \/ \E c \in Callers : CallerGetAccessToken(c)
    \/ \E c \in Callers : CallerClearToken(c)
    \/ \E c \in Callers : AcquireOK(c)
    \/ \E c \in Callers : AcquireFail(c)
    \/ Advance(AuthTimePoints)
    \/ Sweep

SpecAuth == Init /\ [][AuthNext]_vars

\* NumCallers getAccessToken calls issued while no token is cached, each
\* caller calling once (callers are interchangeable: they call in index order)
ConcurrentGetAccessToken(c) ==
    /\ c = 10 + ops + 1
    /\ CallerGetAccessToken(c)

ConcurrentNext ==
    \/ \E c \in Callers : ConcurrentGetAccessToken(c)
    \/ \E c \in Callers : AcquireOK(c)
    \/ \E c \in Callers : AcquireFail(c)

SpecConcurrent == Init /\ [][ConcurrentNext]_vars

\* The token request of a proxied request is answered 401
ClientTokenFailures == {UnauthorizedFailure}
ReqTokenFails(r) == RequestNewTokenFails(r, ClientTokenFailures, {"client_credentials"})

\* Concurrent proxied requests through IONApiClient.request
ClientNext ==
    \/ \E r \in Requests : ReqStart(r)
    \/ \E r \in Requests : ReqResponse(r)
    \/ \E r \in Requests : ReqClear(r)
    \/ \E r \in Requests : ReqRetry(r)
    \/ \E r \in Requests : AcquireOK(r)
    \/ \E r \in Requests : ReqTokenFails(r)

SpecClient == Init /\ [][ClientNext]_vars

\* The token request of a direct caller fails in any of the ways, under
\* either manager
TokenRequestFails(c) == RequestNewTokenFails(c, TokenFailures, GrantFlows)

\* The token manager with a failing token endpoint
FailureNext ==
    \/ \E c \in Callers : CallerGetAccessToken(c)
    \/ \E c \in Callers : AcquireOK(c)
    \/ \E c \in Callers : TokenRequestFails(c)

SpecTokenFailure == Init /\ [][FailureNext]_vars

\* The one request-side getAccessToken that puts a first token in the cache
SeedGetAccessToken ==
    /\ ops = 0
    /\ CallerGetAccessToken(FirstCaller)

\* The background refresher, next to one request-side acquisition
RefresherNext ==
    \/ Start
    \/ Stop
    \/ TimerFire
    \/ \E k \in Ticks : TickClear(k)
    \/ \E k \in Ticks : TickGetToken(k)
    \/ \E t \in Ticks \cup {FirstCaller} : AcquireOK(t)
    \/ \E t \in Ticks \cup {FirstCaller} : AcquireFail(t)
    \/ SeedGetAccessToken
    \/ Advance(RefresherTimePoints)

SpecRefresher == Init /\ [][RefresherNext]_vars

\* Time under an event loop that runs every timer at the instant it is due:
\* the clock does not pass the due instant of an armed timer
AdvanceTimed ==
    /\ \E t \in TimerTimePoints :
        /\ t > now
        /\ timers > 0 => t <= dueAt
        /\ now' = t
    /\ UNCHANGED <<envVars, store, issued, tokenCalls, lastWrite, taskVars, ops, reqVars,
                   trace, refVars>>

\* The refresher with its timer running on time
TimerNext ==
    \/ Start
    \/ Stop
    \/ TimerFire
    \/ \E k \in Ticks : TickClear(k)
    \/ \E k \in Ticks : TickGetToken(k)
    \/ \E t \in Ticks \cup {FirstCaller} : AcquireOK(t)
    \/ \E t \in Ticks \cup {FirstCaller} : AcquireFail(t)
    \/ SeedGetAccessToken
    \/ AdvanceTimed

SpecTimer == Init /\ [][TimerNext]_vars

----------------------------------------------------------------------------
\* Properties of IONApiClient.request

Responses(r) == SelectSeq(trace[r], IsResponse)
IsSend(e) == e = "send"
IsClear(e) == e = "clear"
Sends(r) == Len(SelectSeq(trace[r], IsSend))
Clears(r) == Len(SelectSeq(trace[r], IsClear))
Succeeded(r) == pc[r] = "done" /\ trace[r] # <<>> /\ trace[r][Len(trace[r])] = "r200"
Failed(r) == pc[r] = "done" /\ ~Succeeded(r)

\* C1: a request made without X-Retry-Auth that is answered 401 then 401
\* makes exactly two upstream attempts and one clearToken and fails; answered
\* 401 then 200 it makes exactly two attempts with one clearToken in between
\* and succeeds; no request ever makes more than two upstream attempts.
RetryOnceOn401 ==
    \A r \in Requests :
        /\ Sends(r) <= 2
        /\ (~hdr0[r] /\ Responses(r) = <<"r401", "r401">>)
              => /\ trace[r] = <<"send", "r401", "clear", "send", "r401">>
                 /\ Failed(r)
        /\ (~hdr0[r] /\ Responses(r) = <<"r401", "r200">>)
              => /\ trace[r] = <<"send", "r401", "clear", "send", "r200">>
                 /\ Succeeded(r)

\* One request has gone 401, 401 and another 401, 200
RetryOnceOn401Witness ==
    \E r, q \in Requests :
        /\ ~hdr0[r] /\ Responses(r) = <<"r401", "r401">> /\ Failed(r)
        /\ ~hdr0[q] /\ Responses(q) = <<"r401", "r200">> /\ Succeeded(q)

\* C2: under any interleaving of the concurrent requests each request makes
\* at most two upstream attempts and at most one clearToken, and a request
\* takes the clear-and-retry branch exactly when its own first response is a
\* 401 and it was made without X-Retry-Auth, whatever the other requests did.
RetryIsPerRequest ==
    \A r \in Requests :
        /\ Sends(r) <= 2
        /\ Clears(r) <= 1
        /\ (pc[r] \in {"clearing", "retry"} \/ Clears(r) = 1)
              <=> (Responses(r) # <<>> /\ Responses(r)[1] = "r401" /\ ~hdr0[r])

\* A request takes its retry branch while another request's retry flag is set
RetryIsPerRequestWitness ==
    \E r, q \in Requests :
        /\ r # q
        /\ retryAuth[r] /\ ~hdr0[r] /\ pc[r] \in {"retry", "acquiring", "upstream"}
        /\ pc[q] = "clearing"

----------------------------------------------------------------------------
\* Properties of the IONAuthManager

\* A step in which a direct caller's getAccessToken read the cache
GetStep == ops' = ops + 1 /\ last'.kind \in {"hit", "expired", "absent"}

\* C3: getAccessToken posts to the token endpoint if and only if cache.get
\* returned no entry or an entry whose expiresAt is not strictly greater than
\* now; otherwise it resolves with the cached token and posts nothing.  An
\* entry with exactly no lifetime left is reacquired.
AcquiresIffAbsentOrExpired ==
    [][GetStep =>
        LET e == CacheGet(store, now)
            c == last'.task
        IN  /\ (tokenCalls' = tokenCalls + 1) <=> (~e.present \/ ~(e.expiresAt > now))
            /\ (e.present /\ e.expiresAt > now)
                  => /\ last'.kind = "hit"
                     /\ last'.token = e.token
                     /\ tokenCalls' = tokenCalls
                     /\ pc'[c] = "idle"
            /\ (e.present /\ e.expiresAt = now) => pc'[c] = "acquiring"]_vars

\* A cached token with a remaining lifetime of exactly 0 is being reacquired
AcquiresIffAbsentOrExpiredWitness ==
    /\ last.kind = "expired"
    /\ last.rem = 0
    /\ last.token.expiresIn = 3600
    /\ pc[last.task] = "acquiring"

\* C4: a token whose response is processed at t with expires_in = L is cached
\* with TTL L - 60 s and stored expiry t + (L - 60) s; for L = 3600 the TTL is
\* 3540, a getAccessToken at t + 3539 s resolves from the cache and one at
\* t + 3541 s posts to the token endpoint.
ExpiryMargin ==
    /\ [](store.present =>
            /\ store.expiresAt = store.token.receivedAt + (store.token.expiresIn - 60) * 1000
            /\ store.hasExpiry =>
                  store.entryExpiresAt = store.token.receivedAt + (store.token.expiresIn - 60) * 1000)
    /\ [](last.kind = "acquired" =>
            /\ last.ttl = last.token.expiresIn - 60
            /\ last.token.expiresIn = 3600 => last.ttl = 3540)
    /\ [][(GetStep /\ store.present /\ store.token.expiresIn = 3600)
           => /\ now = store.token.receivedAt + 3539000
                    => (last'.kind = "hit" /\ tokenCalls' = tokenCalls)
              /\ now = store.token.receivedAt + 3541000
                    => (last'.kind # "hit" /\ tokenCalls' = tokenCalls + 1)]_vars

\* A token with expires_in = 3600 served from the cache 3539 s after it was cached
ExpiryMarginWitness ==
    /\ last.kind = "hit"
    /\ last.token.expiresIn = 3600
    /\ last.rem = 1000
    /\ now = last.token.receivedAt + 3539000
    /\ store.present /\ store.token = last.token

\* C5: the local expiry of a cached token always precedes its upstream expiry
\* (issue instant + expires_in), so a token that getAccessToken returns from
\* the cache has not reached its upstream expiry, whatever the latency of the
\* token endpoint within the 30 s timeout.
CachedTokenUpstreamValid ==
    /\ [](store.present =>
            store.expiresAt < store.token.issuedAt + store.token.expiresIn * 1000)
    /\ [][(GetStep /\ last'.kind = "hit")
           => now < last'.token.issuedAt + last'.token.expiresIn * 1000]_vars

\* A token whose response took the whole timeout is served from the cache
\* after the instant at which a token without latency would have expired locally
CachedTokenUpstreamValidWitness ==
    /\ last.kind = "hit"
    /\ last.token.receivedAt - last.token.issuedAt = TokenTimeoutMs
    /\ now > last.token.issuedAt + (last.token.expiresIn - 60) * 1000

\* C6: the TTL handed to the cache and the remaining lifetime stored with a
\* fresh token are always positive, also when expires_in <= 60.
TtlClampedPositive ==
    last.kind \in {"acquired", "setError"} => (last.ttl > 0 /\ last.rem > 0)

CallersDone == ops = NumCallers /\ \A c \in Callers : pc[c] = "idle"

\* C7: of N getAccessToken calls issued while no token is cached, every call
\* that resolves carries a token, the token endpoint is called between 1 and
\* N times, and once all are done cache.get yields the token of the cache
\* write that landed last.
ConcurrentCallsResolve ==
    /\ tokenCalls <= NumCallers
    /\ (issued > 0 \/ lastWrite > 0) => tokenCalls >= 1
    /\ last.kind \in {"hit", "acquired"} => last.token # NoToken
    /\ (CallersDone /\ lastWrite > 0)
          => /\ CacheGet(store, now).present
             /\ CacheGet(store, now).token.id = lastWrite

\* C8 as stated: clearToken never fails and always leaves the entry absent.
ClearTokenNeverFails ==
    /\ last.kind # "clearError"
    /\ last.kind = "cleared" => store = NoEntry

\* C8 amended: clearToken fails only when the cache delete itself fails (a
\* CacheError of the networked backend), and then leaves the entry as it was;
\* on the in-process backend it never fails.  Whenever it completes the entry
\* is absent, whatever was cached before, as in the initial state, and the
\* next getAccessToken finds no entry and acquires.
ClearTokenLeavesAbsent ==
    /\ [](backend = "memory" => last.kind # "clearError")
    /\ [](last.kind = "cleared" => store = NoEntry)
    /\ [][(ops' = ops + 1 /\ last'.kind = "clearError") => store' = store]_vars
    /\ [][(last.kind = "cleared" /\ GetStep)
           => (last'.kind = "absent" /\ tokenCalls' = tokenCalls + 1)]_vars

\* clearToken has removed a cached token
ClearTokenLeavesAbsentWitness ==
    /\ last.kind = "cleared"
    /\ last.token.id >= 1
    /\ store = NoEntry

----------------------------------------------------------------------------
\* Properties of the TokenRefresher

TickTraces ==
    {<<>>, <<"check", "fail">>, <<"check", "skip">>, <<"check", "fresh">>, <<"check">>,
     <<"check", "clear">>, <<"check", "clear", "fail">>, <<"check", "clear", "get">>,
     <<"check", "clear", "get", "ok">>, <<"check", "clear", "get", "fail">>}

\* C9: a check whose cache read succeeds goes on to clearToken if and only if
\* a token is cached with at most refreshBeforeExpiry (300) seconds left, and
\* then calls clearToken once and, after it, getAccessToken at most once; a
\* token with more time left or no token gives neither call.
RefreshThreshold ==
    /\ [][(checks' = checks + 1 /\ last'.kind # "tickCacheError")
           => LET e == CacheGet(store, now)
                  k == last'.task
              IN  (pc'[k] = "clearing") <=> (e.present /\ e.expiresAt - now <= 300 * 1000)]_vars
    /\ [](/\ last.kind = "tickRefresh" => last.rem <= 300000
          /\ last.kind = "tickFresh" => last.rem > 300000)
    /\ [](\A k \in Ticks :
            /\ trace[k] \in TickTraces
            /\ pc[k] = "clearing" <=> trace[k] = <<"check">>
            /\ pc[k] = "getToken" <=> trace[k] = <<"check", "clear">>
            /\ pc[k] = "acquiring" <=> trace[k] = <<"check", "clear", "get">>)

\* A check has found 240 s left and is about to clear and reacquire
RefreshThresholdWitness ==
    /\ last.kind = "tickRefresh"
    /\ last.rem = 240000
    /\ pc[last.task] = "clearing"

\* C10: a check that fails (cache read, clearToken or getAccessToken) leaves
\* isRunning true and the interval timer armed, and the timer can still fire
\* the next check.
RefresherSurvivesFailure ==
    /\ [][proactiveFailed' > proactiveFailed
           => /\ isRunning => isRunning'
              /\ intervalId => intervalId']_vars
    /\ [](isRunning => intervalId)
    /\ []((intervalId /\ now >= dueAt /\ checks < MaxChecks /\ FreeTicks # {})
            => ENABLED TimerFire)

\* After a failed check the refresher is running and a later check has run
RefresherSurvivesFailureWitness ==
    /\ proactiveFailed >= 1
    /\ isRunning /\ intervalId
    /\ checks = 2
    /\ last.kind \in {"tickAbsent", "tickFresh", "tickRefresh"}

\* C11: at most one interval timer is armed, and one is armed exactly when
\* isRunning is true (and then intervalId is set); a start() while running and
\* a stop() while stopped change nothing at all: no second timer, no extra
\* check.
SingleTimer ==
    /\ [](/\ timers <= 1
          /\ timers = 1 <=> isRunning
          /\ intervalId <=> isRunning)
    /\ [][(isRunning /\ Start) => UNCHANGED vars]_vars
    /\ [][(~isRunning /\ Stop) => UNCHANGED vars]_vars

\* The refresher runs with one timer after start(), stop(), start()
SingleTimerWitness ==
    /\ isRunning
    /\ timers = 1
    /\ startChecks = 1
    /\ checks = 2

\* C12: while the refresher runs, the number of checks initiated since its
\* start() is k + 1 once the k-th interval's tick has run (k whole intervals
\* have elapsed since start()); a check is only ever initiated by a refresher
\* that is running, so none is initiated between a stop() and the next start().
PeriodicChecks ==
    /\ [](isRunning =>
            LET k == (now - startedAt) \div CheckInterval(ConfiguredCheckInterval)
            IN  checks - startChecks = IF now < dueAt THEN k + 1 ELSE k)
    /\ [](~isRunning => timers = 0)
    /\ [][checks' # checks => isRunning']_vars
    /\ [][(~isRunning /\ ~isRunning') => checks' = checks]_vars

\* One interval after start() the second check has been initiated
PeriodicChecksWitness ==
    /\ isRunning
    /\ now = startedAt + CheckInterval(ConfiguredCheckInterval)
    /\ now < dueAt
    /\ checks - startChecks = 2

\* C13: at most one check of the refresher is between its cache read and the
\* end of its invalidate and reacquire at any time.
SingleRefreshInFlight ==
    Cardinality({k \in Ticks : pc[k] # "idle"}) <= 1

----------------------------------------------------------------------------
\* Properties of a failing token request

\* A step in which a direct caller's token request fails
FailStep ==
    /\ last'.kind = "acquireError"
    /\ \E c \in Callers : pc[c] = "acquiring" /\ pc'[c] = "idle"

\* C14: a token request that fails (error payload, HTTP error or transport
\* failure) writes nothing to the cache and rejects with an error, without a
\* token; the cache never holds anything but a token that was issued; and
\* the getAccessToken after the failure posts to the token endpoint again
\* unless a token that is still valid is cached.
FailureWritesNothing ==
    /\ [][FailStep => /\ store' = store
                      /\ lastWrite' = lastWrite
                      /\ last'.err # NoError
                      /\ last'.token = NoToken]_vars
    /\ [](store.present => store.token.id \in 1 .. issued)
    /\ [][(last.kind = "acquireError" /\ GetStep)
           => /\ (tokenCalls' = tokenCalls + 1) <=> ~CacheHit(CacheGet(store, now), now)
              /\ last'.kind = "hit" => last'.token.id >= 1]_vars

\* After a token request has failed on an error payload, with nothing issued
\* yet, the next getAccessToken has posted a second token request
FailureWritesNothingWitness ==
    /\ last.kind = "absent"
    /\ tokenCalls = 2
    /\ issued = 0
    /\ ops = 2
    /\ \A c \in Callers : c # last.task => pc[c] = "idle"

\* C15: a token request answered with an OAuth error payload or with a 400 or
\* 401 response is rejected with code ION_AUTH_INVALID_CREDENTIALS and
\* retryable = false.
InvalidCredentialsClassified ==
    (last.kind = "acquireError" /\ (last.cause.via = "body" \/ last.cause.status \in {400, 401}))
        => /\ last.err.code = "ION_AUTH_INVALID_CREDENTIALS"
           /\ last.err.retryable = "false"

\* C16: a token request that fails without a response is rejected with code
\* ION_AUTH_NETWORK_ERROR, never with the classification of a credential
\* rejection.
TransportIsNetworkError ==
    (last.kind = "acquireError" /\ last.cause.via = "transport")
        => /\ last.err.code = "ION_AUTH_NETWORK_ERROR"
           /\ last.err.code # InvalidCredentials.code

\* C17: a token request answered 429 with Retry-After r is rejected with the
\* rate-limited classification and retryAfter = r.
RateLimitCarriesRetryAfter ==
    (last.kind = "acquireError" /\ last.cause.status = 429)
        => /\ last.err.code = "ION_AUTH_RATE_LIMITED"
           /\ last.err.retryAfter = last.cause.retryAfter

----------------------------------------------------------------------------
\* Properties of IONApiClient.request on failures

AuthErrorStep(r) ==
    /\ Len(trace'[r]) = Len(trace[r]) + 1
    /\ trace'[r][Len(trace'[r])] = "authError"

\* C18: when getAccessToken rejects inside request(), on the first attempt
\* or on the retry, the request rejects with that very error: no upstream
\* attempt is made, clearToken is not called and nothing follows, also when
\* the error carries status 401.
AuthFailurePropagates ==
    /\ [][\A r \in Requests :
            AuthErrorStep(r)
                => /\ pc'[r] = "done"
                   /\ thrown'[r] = last'.err
                   /\ ~IsAxiosError(thrown'[r])
                   /\ store' = store
                   /\ SelectSeq(trace'[r], IsSend) = SelectSeq(trace[r], IsSend)
                   /\ SelectSeq(trace'[r], IsClear) = SelectSeq(trace[r], IsClear)]_vars
    /\ [](\A r \in Requests : \A i \in 1 .. Len(trace[r]) :
            trace[r][i] = "authError" => (i = Len(trace[r]) /\ pc[r] = "done"))

\* A request whose token request on the retry was answered 401 has rejected
\* with that error after one upstream attempt
AuthFailurePropagatesWitness ==
    \E r \in Requests :
        /\ trace[r] = <<"send", "r401", "clear", "authError">>
        /\ thrown[r] = IONAPIError(401, "body")
        /\ pc[r] = "done"

\* C19: an upstream failure with a status other than 401 ends the request:
\* as the first response it leaves exactly one upstream attempt and no
\* clearToken, and the request rejects with an IONAPIError that has the
\* status and the body of the upstream response.
UpstreamErrorWrapped ==
    \A r \in Requests :
        /\ (Responses(r) # <<>> /\ Responses(r)[1] = "r404")
              => (trace[r] = <<"send", "r404">> /\ Failed(r))
        /\ (trace[r] # <<>> /\ trace[r][Len(trace[r])] = "r404")
              => (pc[r] = "done" /\ thrown[r] = IONAPIError(404, "body"))
        /\ \A i \in 1 .. Len(trace[r]) :
              trace[r][i] \in {"r404", "r0"} => i = Len(trace[r])

\* A request answered 404 has rejected with IONAPIError 404
UpstreamErrorWrappedWitness ==
    \E r \in Requests :
        /\ trace[r] = <<"send", "r404">>
        /\ thrown[r].cls = "IONAPIError"
        /\ thrown[r].status = 404
        /\ thrown[r].details = "body"

\* C20: the bearer of a request's second upstream attempt is the token of
\* the request's own new acquisition or is read from a cache entry that was
\* not cached when the request was answered 401; after its clearToken and
\* until then, no entry that was cached at the 401 is in the cache.
RetryUsesFreshToken ==
    /\ [][\A r \in Requests :
            (Sends(r) = 1 /\ Len(SelectSeq(trace'[r], IsSend)) = 2)
                => /\ tok'[r] # NoToken
                   /\ last'.task = r
                   /\ tok'[r] = last'.token
                   /\ \/ last'.kind = "acquired"
                      \/ /\ last'.kind = "hit"
                         /\ store.present
                         /\ store.token = tok'[r]
                         /\ r \notin store.seenBy]_vars
    /\ [](\A r \in Requests : pc[r] = "retry" => r \notin store.seenBy)

\* A request's second attempt carries a token that another request acquired
\* after this request's clearToken
RetryUsesFreshTokenWitness ==
    \E r \in Requests :
        /\ Sends(r) = 2
        /\ pc[r] = "upstream"
        /\ last.kind = "hit"
        /\ last.task = r
        /\ tok[r].id >= 2
        /\ tok[r] = store.token

----------------------------------------------------------------------------
\* Request-side getAccessToken calls, one proxied request with its reactive
\* clearToken and getAccessToken on a 401, and the checks of the refresher,
\* interleaved; no token request fails
FirstRequest == 1
ConvergeTimePoints == {0, 3240000}
ConvergeNext ==
    \/ \E c \in Callers : ConcurrentGetAccessToken(c)
    \/ ReqStart(FirstRequest)
    \/ ReqResponse(FirstRequest)
    \/ ReqClear(FirstRequest)
    \/ ReqRetry(FirstRequest)
    \/ Start
    \/ TimerFire
    \/ \E k \in Ticks : TickClear(k)
    \/ \E k \in Ticks : TickGetToken(k)
    \/ \E t \in Tasks : AcquireOK(t)
    \/ Advance(ConvergeTimePoints)

SpecConverge == Init /\ [][ConvergeNext]_vars

----------------------------------------------------------------------------
\* Requests to the proxy route, one after another, with the clock running
ProxyNext ==
    \/ \E i \in ProxyInputIds, a \in UpstreamAnswers : ProxyHandle(i, a)
    \/ ProxySweep
    \/ ProxyAdvance

SpecProxy == Init /\ [][ProxyNext]_vars

----------------------------------------------------------------------------
\* The users of the one cache side by side: a caller of the token manager,
\* the proxy route (a request under a cacheable prefix and one outside) and
\* the cache health check
FrameInputs == {1, 7}
FrameAnswers == {UpstreamAnswer(200, "object"), UpstreamAnswer(0, "none")}

FrameNext ==
    \/ \E i \in FrameInputs, a \in FrameAnswers : ProxyHandle(i, a)
    \/ CheckCache
    \/ CallerGetAccessToken(FirstCaller)
    \/ CallerClearToken(FirstCaller)
    \/ AcquireOK(FirstCaller)
    \/ AcquireFail(FirstCaller)
    \/ ProxySweep

SpecFrame == Init /\ [][FrameNext]_vars

----------------------------------------------------------------------------
\* The singleton functions and direct calls on the instances they returned
SingletonNext ==
    \/ InitializeTokenRefresher
    \/ GetTokenRefresher
    \/ StopTokenRefresher
    \/ \E i \in Instances : InstanceStart(i)
    \/ \E i \in Instances : InstanceStop(i)

SpecSingleton == Init /\ [][SingletonNext]_vars

----------------------------------------------------------------------------
\* One proxied request whose token request or upstream call fails, up to
\* the response of the error handler
ReqTokenRequestFails(r) == RequestNewTokenFails(r, TokenFailures, GrantFlows)

EnvelopeNext ==
    \/ ReqStart(FirstRequest)
    \/ ReqResponse(FirstRequest)
    \/ ReqClear(FirstRequest)
    \/ ReqRetry(FirstRequest)
    \/ AcquireOK(FirstRequest)
    \/ ReqTokenRequestFails(FirstRequest)
    \/ ErrorHandled(FirstRequest)

SpecEnvelope == Init /\ [][EnvelopeNext]_vars

----------------------------------------------------------------------------
\* A deployment from its configuration to its first token request
GrantNext ==
    \/ Configure
    \/ ConstructManager
    \/ PostTokenRequest

SpecGrant == Init /\ [][GrantNext]_vars

----------------------------------------------------------------------------
\* Manual refreshes next to the refresher's own checks.  The continuation of
\* an await runs before any other callback does.
ManualTimePoints == {0, 3300000}
ManualNext ==
    \/ RefreshNow
    \/ RefreshNowSettles
    \/ ~RefreshNowPending /\ Start
    \/ ~RefreshNowPending /\ Stop
    \/ ~RefreshNowPending /\ \E k \in Ticks : TickClear(k)
    \/ ~RefreshNowPending /\ \E k \in Ticks : TickGetToken(k)
    \/ ~RefreshNowPending /\ \E t \in Ticks \cup {FirstCaller} : AcquireOK(t)
    \/ ~RefreshNowPending /\ \E t \in Ticks \cup {FirstCaller} : AcquireFail(t)
    \/ ~RefreshNowPending /\ SeedGetAccessToken
    \/ ~RefreshNowPending /\ Advance(ManualTimePoints)

SpecManual == Init /\ [][ManualNext]_vars

----------------------------------------------------------------------------
\* The refresher's timer under a token endpoint that issues short-lived
\* tokens: lifetimes (s) of 60, of 360 and 420 (refreshBeforeExpiry after the
\* safety margin at once, and one checkInterval later) and of an hour
LoopExpiresIn == {60, 360, 420, 3600}
LoopNext ==
    \/ Start
    \/ TimerFire
    \/ \E k \in Ticks : TickClear(k)
    \/ \E k \in Ticks : TickGetToken(k)
    \/ \E t \in Ticks \cup {FirstCaller} : AcquireOKWith(t, LoopExpiresIn)
    \/ \E t \in Ticks : AcquireFail(t)
    \/ SeedGetAccessToken
    \/ AdvanceTimed

SpecLoop == Init /\ [][LoopNext]_vars

----------------------------------------------------------------------------
\* Concurrent health checks on one cache
HealthNext ==
    \/ \E h \in HealthChecks : CheckCacheSets(h)
    \/ \E h \in HealthChecks : CheckCacheGets(h)
    \/ \E h \in HealthChecks : CheckCacheDeletes(h)
    \/ \E h \in HealthChecks : CheckCacheReturns(h)
    \/ HealthAdvance

SpecHealth == Init /\ [][HealthNext]_vars

----------------------------------------------------------------------------
\* Requests through the two middlewares
MiddlewareNext ==
    \/ AuthMiddleware
    \/ RequirePermission
    \/ AuthAdvance

SpecMiddleware == Init /\ [][MiddlewareNext]_vars

----------------------------------------------------------------------------
\* The CacheManager from its construction on
CacheManagerNext ==
    \/ CacheInitialize
    \/ CacheManagerCall
    \/ CacheDisconnect

SpecCacheManager == InitRedis /\ [][CacheManagerNext]_vars

----------------------------------------------------------------------------
\* The two cache drivers under the same operations, without faults

BackendsNext ==
    \/ CacheDriverGet(FALSE)
    \/ CacheDriverSet(FALSE)
    \/ CacheDriverDelete(FALSE)
    \/ CacheDriverClear(FALSE)
    \/ CacheDriverHas(FALSE)
    \/ DriverSweep
    \/ DriverAdvance

SpecBackends == Init /\ [][BackendsNext]_vars

\* The Redis driver with its connection coming and going and commands that
\* may be rejected
RedisNext ==
    \/ RedisConnect
    \/ RedisDisconnect
    \/ \E fails \in BOOLEAN : CacheDriverGet(fails)
    \/ \E fails \in BOOLEAN : CacheDriverSet(fails)
    \/ \E fails \in BOOLEAN : CacheDriverDelete(fails)
    \/ \E fails \in BOOLEAN : CacheDriverClear(fails)
    \/ \E fails \in BOOLEAN : CacheDriverHas(fails)

SpecRedis == InitRedis /\ [][RedisNext]_vars

----------------------------------------------------------------------------
\* Properties of the cache drivers

\* A step that is one driver operation
DriverOpStep(op) == dres'.n = dres.n + 1 /\ dres'.op = op

\* A run of the cleanup interval of the in-process driver
SweepStep == dres' = dres /\ now' = now /\ mem' # mem

\* C28: in the in-process driver get and has never report an entry whose
\* expiry instant is earlier than now; a sweep changes the result of no get
\* and of no has, and it removes only entries that have expired, never an
\* entry that has not or one stored without expiry.
MemoryExpiryIsLazy ==
    /\ [][DriverOpStep("get")
            => (dres'.mem.value # JsNull
                  => At(mem, dres'.key).present /\ ~MemoryExpired(At(mem, dres'.key), now))]_vars
    /\ [][DriverOpStep("has")
            => (dres'.mem.value = JsBoolean(TRUE)
                  => At(mem, dres'.key).present /\ ~MemoryExpired(At(mem, dres'.key), now))]_vars
    /\ [][SweepStep
            => \A k \in CacheKeys :
                 /\ MemoryGet(mem', k, now).value = MemoryGet(mem, k, now).value
                 /\ MemoryHas(mem', k, now).value = MemoryHas(mem, k, now).value
                 /\ At(mem', k) # At(mem, k)
                      => (At(mem', k) = Absent /\ At(mem, k).hasExpiry /\ At(mem, k).expiresAt < now)]_vars

\* After two sets and nothing else, the sweep has removed the entry that
\* expired and has left the one stored without expiry
MemoryExpiryIsLazyWitness ==
    /\ dres.op = "set"
    /\ dres.n = 2
    /\ \E k1, k2 \in DriverKeys :
          /\ ~At(mem, k1).present
          /\ At(red, k1).present
          /\ At(mem, k2).present
          /\ ~At(mem, k2).hasExpiry

\* C29: every operation of the Redis driver throws CacheError when there is
\* no connected client or when its command is rejected; it returns nothing
\* in that case.
RedisFailsLoudly ==
    (dres.n > 0 /\ (dres.client # "ready" \/ dres.fails))
        => (dres.red.threw /\ dres.red.value.val = "CacheError")

\* A get after disconnect(), with a key still stored on the server
RedisFailsLoudlyWitness ==
    /\ dres.op = "get"
    /\ dres.client = "null"
    /\ ~dres.fails
    /\ At(red, dres.key).present
    /\ dres.red.threw

\* C30: the in-process and the Redis driver answer every get, has and delete
\* alike.
BackendsAgree ==
    dres.op \in {"get", "has", "delete"} => dres.mem = dres.red

----------------------------------------------------------------------------
\* Properties of interleaved token operations

AllComplete == \A t \in Tasks : pc[t] \in {"idle", "done"}

\* C27: with no failing token request and no failing cache operation, once
\* every getAccessToken, every reactive clearToken and getAccessToken pair
\* and every refresher check has completed and a token has been acquired,
\* cache.get yields a token, and the token and the expiry of the entry are
\* those of one acquisition.
InterleavingsConverge ==
    (backend = "memory" /\ AllComplete /\ issued >= 1)
        => /\ CacheGet(store, now).present
           /\ store.token.id \in 1 .. issued
           /\ store.expiresAt = TokenExpiresAt(store.token.expiresIn, store.token.receivedAt)

----------------------------------------------------------------------------
\* Properties of the proxy route

\* The request being answered and the one answered before it
ThisRequest == ProxyInputs[proxy.req]
PrevRequest == ProxyInputs[proxy.prev.req]

\* The entries a get would find, key by key, under the configured driver
ResponseCache ==
    [k \in CacheKeys |->
        IF backend = "memory"
        THEN IF At(mem, k).present /\ ~MemoryExpired(At(mem, k), now) THEN At(mem, k) ELSE Absent
        ELSE IF RedisLive(At(red, k), now) THEN [At(red, k) EXCEPT !.value = JsonParse(@)] ELSE Absent]

\* A step in which the proxy handles one request
ProxyStep == proxy'.n = proxy.n + 1

\* C21: a cacheable request made within the prefix's TTL after the same
\* request (same caller, path and query) was answered 200 by the upstream is
\* answered from the cache, marked X-Cache: HIT, with the body cached then,
\* without upstream call and without token lookup, whatever that body was.
RepeatedRequestHits ==
    (/\ proxy.n >= 2
     /\ proxy.prev.req = proxy.req
     /\ proxy.prev.xcache = "MISS"
     /\ proxy.prev.status = 200
     /\ ShouldCache(ThisRequest.path, ThisRequest.method).cache
     /\ proxy.at - proxy.prev.at < ShouldCache(ThisRequest.path, ThisRequest.method).ttl * 1000)
        => /\ proxy.xcache = "HIT"
           /\ proxy.body = proxy.prev.body
           /\ proxy.upstream = 0
           /\ proxy.tokens = 0

\* C22: handling a request changes the response cache only when the request
\* is a GET under a configured prefix that the upstream answered 200, and
\* then only the entry under the request's key, which becomes the response
\* body with the prefix's TTL.
WritesOnlyCacheableSuccess ==
    [][ProxyStep =>
        LET r == ProxyInputs[proxy'.req]
            cfg == ShouldCache(r.path, r.method)
        IN  /\ ResponseCache' # ResponseCache
                => /\ r.method = "GET"
                   /\ cfg.cache
                   /\ proxy'.status = 200
                   /\ proxy'.xcache = "MISS"
                   /\ \A k \in CacheKeys :
                        k # ProxyCacheKey(r) => ResponseCache'[k] = ResponseCache[k]
                   /\ ResponseCache'[ProxyCacheKey(r)]
                        = Entry(proxy'.body, TRUE, now + cfg.ttl * 1000)
            /\ proxy'.wrote <=> (r.method = "GET" /\ cfg.cache /\ proxy'.status = 200
                                   /\ proxy'.xcache = "MISS")]_vars

\* A 200 under '/IDM/api/items' has been cached for 600 s and is still there
\* after 400 s, when an entry with 300 s is gone
WritesOnlyCacheableSuccessWitness ==
    /\ now = 400000
    /\ proxy.wrote
    /\ proxy.at = 0
    /\ ThisRequest.path = ItemsPath
    /\ ResponseCache[ProxyCacheKey(ThisRequest)] = Entry(proxy.body, TRUE, 600000)

\* C23: a request that is not cacheable (not a GET, or a GET outside the
\* configured prefixes) is not answered from the cache: a token is looked up
\* and the request is forwarded.
NonCacheableForwarded ==
    (proxy.n >= 1 /\ ~ShouldCache(ThisRequest.path, ThisRequest.method).cache)
        => /\ proxy.xcache # "HIT"
           /\ proxy.tokens = 1
           /\ proxy.upstream = 1

\* C24: a response served from the cache is the upstream's response to a
\* request of the same caller with the same path and the same query.
CachePartitionedByCaller ==
    proxy.xcache = "HIT"
        => LET source == ProxyInputs[proxy.body.of]
           IN  /\ ClientIdentifier(source) = ClientIdentifier(ThisRequest)
               /\ source.path = ThisRequest.path
               /\ QueryParams(source.query) = QueryParams(ThisRequest.query)

\* C25: a GET with the caller, the path and the query parameters of the
\* cacheable GET answered 200 with a body just before it, within the TTL, is
\* served as a cache hit, in whatever order its parameters come.
QueryOrderIrrelevant ==
    (/\ proxy.n >= 2
     /\ ThisRequest.method = "GET"
     /\ PrevRequest.method = "GET"
     /\ ClientIdentifier(PrevRequest) = ClientIdentifier(ThisRequest)
     /\ PrevRequest.path = ThisRequest.path
     /\ QueryParams(PrevRequest.query) = QueryParams(ThisRequest.query)
     /\ proxy.prev.xcache = "MISS"
     /\ proxy.prev.status = 200
     /\ Truthy(proxy.prev.body)
     /\ ShouldCache(ThisRequest.path, ThisRequest.method).cache
     /\ proxy.at - proxy.prev.at < ShouldCache(ThisRequest.path, ThisRequest.method).ttl * 1000)
        => /\ ProxyCacheKey(PrevRequest) = ProxyCacheKey(ThisRequest)
           /\ proxy.xcache = "HIT"

\* A step of the cache health check, and a step of a direct caller of the
\* token manager
HealthStep == DriverOpStep("health")
TokenOperationStep == ops' # ops \/ pc' # pc

\* The token entry is written by a successful acquisition
TokenAcquiredStep ==
    /\ issued' = issued + 1
    /\ store'.present
    /\ store'.token.id = issued'

\* The token entry is deleted by clearToken, or because it has expired
TokenClearedStep == ops' = ops + 1 /\ last'.kind = "cleared" /\ store' = NoEntry
TokenExpiredStep == EntryExpired(store, now) /\ store' = NoEntry

----------------------------------------------------------------------------
\* Properties of the singleton refresher

\* C31: initializeTokenRefresher returns the one singleton instance, and
\* that instance is running; getTokenRefresher returns the singleton, which
\* is null before the first initialize and after stopTokenRefresher.
SingletonIsRunning ==
    /\ sres.op = "initialize" => sres.value # 0 /\ sres.value = tokenRefresher /\ sres.running
    /\ sres.op = "get" => sres.value = tokenRefresher
    /\ sres.op = "stop" => tokenRefresher = 0
    /\ instances = <<>> => tokenRefresher = 0

----------------------------------------------------------------------------
\* Properties of the error path

\* C32: the response to a failed proxied request has the status code and
\* the code of the error that was raised, and holds a stack exactly in
\* development mode.
EnvelopeCarriesError ==
    res.n = 1
        => /\ res.status = res.err.status
           /\ res.code = res.err.code
           /\ res.stack <=> res.dev

----------------------------------------------------------------------------
\* Properties of the token request

\* C33: the token request has grant_type 'password', with username and
\* password fields, exactly when both username and password are configured,
\* and grant_type 'client_credentials' with client_id and client_secret only
\* otherwise.
GrantFollowsCredentials ==
    tokenRequest.phase = "posted"
        => IF tokenRequest.credentials.username /\ tokenRequest.credentials.password
           THEN /\ tokenRequest.body.grant_type = "password"
                /\ {"username", "password"} \subseteq tokenRequest.body.fields
           ELSE /\ tokenRequest.body.grant_type = "client_credentials"
                /\ tokenRequest.body.fields = {"client_id", "client_secret"}

----------------------------------------------------------------------------
\* Properties of refreshNow

\* What a checkAndRefreshToken invocation that has ended has done
EndedTraces ==
    {<<"check", "fail">>, <<"check", "skip">>, <<"check", "fresh">>,
     <<"check", "clear", "fail">>, <<"check", "clear", "get", "ok">>,
     <<"check", "clear", "get", "fail">>}

\* C34: refreshNow() decides as a timer tick does, whether or not the
\* refresher is running: when its cache read succeeds it goes on to
\* clearToken if and only if a token is cached with at most
\* refreshBeforeExpiry (300) seconds left, then calls clearToken once and,
\* after it, getAccessToken at most once, and does neither otherwise; no step
\* of it changes isRunning or the timer; and it never rejects, whatever
\* failed inside it.
ManualRefresh ==
    /\ [][manual'.calls = manual.calls + 1
           => /\ manual'.slot \in Ticks
              /\ last'.kind # "tickCacheError"
                    => LET e == CacheGet(store, now)
                       IN  (pc'[manual'.slot] = "clearing")
                              <=> (e.present /\ e.expiresAt - now <= 300 * 1000)]_vars
    /\ [][(\/ manual' # manual
            \/ (manual.slot # 0 /\ pc'[manual.slot] # pc[manual.slot])
            \/ (manual.slot # 0 /\ trace'[manual.slot] # trace[manual.slot]))
           => UNCHANGED <<isRunning, intervalId, timers, dueAt>>]_vars
    /\ [](/\ manual.rejected = 0
          /\ manual.resolved = IF manual.slot = 0 THEN manual.calls ELSE manual.calls - 1
          /\ (manual.calls > 0 /\ manual.slot = 0) => manual.did \in EndedTraces
          /\ manual.slot # 0 => trace[manual.slot] \in TickTraces)

\* A manual refresh of a stopped refresher has cleared the token, its
\* acquisition has failed, and it has resolved all the same
ManualRefreshWitness ==
    /\ manual.calls = 1
    /\ manual.resolved = 1
    /\ ~manual.wasRunning
    /\ ~isRunning
    /\ manual.did = <<"check", "clear", "get", "fail">>
    /\ store = NoEntry

----------------------------------------------------------------------------
\* Properties of a failed proactive refresh

\* The token request of check k fails in this step
ProactiveAcquisitionFails(k) ==
    /\ pc[k] = "acquiring"
    /\ pc'[k] = "idle"
    /\ last'.kind = "acquireError"
    /\ last'.task = k

\* C35: when the acquisition of a proactive refresh fails the cache holds no
\* token afterwards (the previous one was deleted and is not restored); a
\* later check that finds the cache empty makes no acquisition attempt; and
\* a check posts to the token endpoint only inside the cycle it began on a
\* cached token, so an empty cache is filled by a request-side
\* getAccessToken only.
FailedRefreshLeavesCacheEmpty ==
    /\ [][(\E k \in Ticks : ProactiveAcquisitionFails(k)) => ~store'.present]_vars
    /\ [][(checks' = checks + 1 /\ ~store.present)
           => /\ tokenCalls' = tokenCalls
              /\ pc'[last'.task] = "idle"]_vars
    /\ [][(tokenCalls' = tokenCalls + 1 /\ last'.task \in Ticks)
           => trace'[last'.task] = <<"check", "clear", "get">>]_vars

----------------------------------------------------------------------------
\* Properties of consecutive proactive refreshes

\* A check whose cache read succeeds runs in this step
CheckStep == checks' = checks + 1 /\ last'.kind # "tickCacheError"

RefreshLoopAgainWitness ==
    /\ issued = 3
    /\ tokenCalls = 3
    /\ now = 60000
    /\ store.present /\ store.token.id = 3 /\ store.token.expiresIn = 360
    /\ store.token.receivedAt = 60000

----------------------------------------------------------------------------
\* Properties of the cache health check

\* C37: every checkCache call ends with a status; it reports 'connected'
\* whenever none of its cache operations has failed, also next to other
\* health checks, and 'error' only when one has failed; and when a call
\* ends, 'health:check:test' is not in the cache.
HealthCheckSound ==
    /\ [](\A h \in HealthChecks :
            health[h].pc = "done"
                => /\ health[h].status \in {"connected", "error"}
                   /\ health[h].status = "connected" <=> ~health[h].failed)
    /\ [][\A h \in HealthChecks :
            (health[h].pc # "done" /\ health'[h].pc = "done")
                => ~At(IF backend = "memory" THEN mem' ELSE red', HealthKey).present]_vars

----------------------------------------------------------------------------
\* Properties of the API key middlewares

\* C38: a request that authMiddleware lets through carries the clientId and
\* the permissions of its key, whether the key was found in the auth cache
\* or in the key store, so requirePermission lets it through exactly when the
\* key's permissions grant what the route requires, on the first request
\* with the key as on every later one.
SameIdentityFromCache ==
    LET keyInfo == ApiKeys(HashApiKey(authReq.apiKey))
    IN  /\ authReq.status = "next"
            => /\ authReq.clientId = keyInfo.clientId
               /\ authReq.hasPermissions
               /\ authReq.permissions = keyInfo.permissions
        /\ authReq.verdict # "none"
            => (authReq.verdict = "next"
                  <=> \E granted \in keyInfo.permissions :
                         MatchesPermission(authReq.required, granted))

----------------------------------------------------------------------------
\* Properties of the CacheManager

\* A call of the manager is made in this step
CacheCallStep == cache'.n = cache.n + 1

\* C39: before initialize() every get, set, delete, clear and has throws
\* 'Cache not initialized' and changes nothing; disconnect() before
\* initialize() returns and changes nothing; and a set() without ttlSeconds
\* that succeeds stores the entry with the configured default TTL (300 s),
\* not without expiry.
UninitializedCacheFails ==
    /\ [][(CacheCallStep /\ cache.driver = "null"
              /\ cache'.op \in {"get", "set", "delete", "clear", "has"})
           => /\ cache'.threw
              /\ cache'.value = JsValue("Cache not initialized", 0)
              /\ cache'.driver = "null"
              /\ UNCHANGED <<mem, red, rclient>>]_vars
    /\ [][(CacheCallStep /\ cache.driver = "null" /\ cache'.op = "disconnect")
           => /\ ~cache'.threw
              /\ cache'.driver = "null"
              /\ UNCHANGED <<mem, red, rclient>>]_vars
    /\ [][(CacheCallStep /\ cache'.op = "set" /\ ~cache'.hasOption /\ ~cache'.threw)
           => LET e == At(IF cache.driver = "memory" THEN mem' ELSE red', cache'.key)
              IN  /\ e.present
                  /\ e.hasExpiry
                  /\ e.expiresAt = now + 300 * 1000]_vars

\* A get was refused before initialize(), and after it a set() without
\* ttlSeconds has stored an entry that expires in 300 s
UninitializedCacheFailsWitness ==
    /\ cache.n = 3
    /\ cache.refused = 1
    /\ cache.driver = backend
    /\ cache.op = "set"
    /\ ~cache.hasOption
    /\ ~cache.threw
    /\ At(DriverMap, TokenKey).present
    /\ At(DriverMap, TokenKey).hasExpiry
    /\ At(DriverMap, TokenKey).expiresAt = 300000

====
